---- MODULE Spec2Model ----
(***************************************************************************)
(* The audio-session pipeline of webrtc-transcriber:                       *)
(*   - the Transcription Streams (Whisper and Recorder, which append to a  *)
(*     WAV file; IflyTek, Azure and Baidu, which forward over a WebSocket  *)
(*     and run a background listener),                                     *)
(*   - the pump of PionRtcService.handleAudioTrack with its RTP reader     *)
(*     goroutine, idle timer, deferred close-and-drain and data channel.   *)
(* Spec is the program as it runs (one pump driving one stream).           *)
(* SpecFile and SpecWs are one stream (file-backed, WebSocket-backed)      *)
(* driven through the Stream interface by two goroutines and a consumer    *)
(* of Results(): the stream contract as any caller may use it.             *)
(***************************************************************************)
EXTENDS Integers, Sequences, FiniteSets, TLC

\* ---------------------------------------------------------------- bounds
\* MaxCalls: Stream calls the clients of SpecFile and SpecWs make in all;
\* MaxMsgs: inbound vendor messages; MaxPackets: packets of a track;
\* MaxChunk: bytes of an ordinary buffer; MaxTracks: tracks a peer connection receives
MaxCalls == 3
MaxMsgs == 2
MaxPackets == 2
MaxChunk == 2
MaxTracks == 2
\* CreateStream calls one session makes
MaxStreams == 2
\* distinct seconds the clock shows while streams are created
MaxTime == 2
\* logins that succeed; requests the browsers send in all; ticks of the clock
MaxLogins == 2
MaxRequests == 4
MaxNow == 3

\* ------------------------------------------------------ program constants
WavHeaderSize == 44
WhisperResultsCap == 10
RecorderResultsCap == 1
IflyTekResultsCap == 0
AzureResultsCap == 10
BaiduResultsCap == 10
AudioStreamCap == 100
ResponseCap == 100
DataChanCap == 1

FileKinds == {"whisper", "recorder"}
WsKinds == {"iflytek", "azure", "baidu"}
Kinds == FileKinds \cup WsKinds
Clients == {"c1", "c2"}
Threads == {"pump"} \cup Clients
Callbacks == 0..MaxTracks
\* the sessions that ask the service for streams
Sessions == {"s1", "s2"}

VARIABLES
    \* ---- the stream object
    kind,           \* which backend created the stream
    opts,           \* [transcribe, keepWav, keepTxt]: WhisperStream.transcribe,
                    \* WhisperTranscriber.keepWav and keepTxt
    mu,             \* holder of the stream mutex, or "none"
    isClosed,       \* WhisperStream.isClosed / RecorderStream.isClosed
    file,           \* the WAV file: [exists, open, chunkSize, dataSize, audio, txt]
    results,        \* buffered contents of the results channel
    resultsClosed,  \* close(results) has run
    conn,           \* the WebSocket: [open, frames]; frames: the messages handed to WriteMessage
    lpc,            \* position of the listener goroutine
    lres,           \* the Result the listener is about to send
    nMsgs,          \* inbound vendor messages read so far
    panics,         \* run-time panics raised so far
    call,           \* per calling goroutine, the Stream method it is executing
    nCalls,         \* calls started by the clients (SpecFile, SpecWs)
    consumed,       \* Results received by the consumer of Results() (SpecFile, SpecWs);
                    \* disk: which of the stream's files existed at each receive
    gh,             \* history of the stream's operations (see GhInit)
    \* ---- the pump of handleAudioTrack
    track,          \* what the track delivers: [pkts, end]
    tpos,           \* packets already read from the track
    rpc,            \* position of the RTP reader goroutine
    rpkt,           \* packet the reader holds
    audioStream,    \* channel audioStream (payloads)
    audioClosed,    \* close(audioStream) has run
    response,       \* tokens in channel response
    errs,           \* channel errs
    timerArmed,     \* the 5 s timer is running
    timerC,         \* a tick is waiting in timer.C
    ctxDone,        \* cancel() has run
    ppc,            \* position of the pump goroutine
    pchunk,         \* packet the pump is writing
    ret,            \* value handleAudioTrack returns
    dcSent,         \* messages handed to dc.Send, in order
    dcClosed,       \* dc.Close() has run
    ph,             \* history of the pump (see PhInit)
    \* ---- the closure variables of CreatePeerConnection
    audioTrack,     \* var audioTrack *webrtc.Track in memory: 0 (nil) or a track
    dataChannel,    \* var dataChannel *webrtc.DataChannel in memory: set or nil
    dataChan,       \* values buffered in channel dataChan
    cb,             \* per callback goroutine (0: OnDataChannel, i: OnTrack of track i):
                    \* its position, the codec of its track, and whether its write
                    \* to the shared variable is still to reach memory
    nPumps,         \* goroutines started to run handleAudioTrack
    \* ---- startup (main, selectVendor) and the service it selects
    env,            \* flags, environment variables and file system as main finds them
    mpc,            \* position of main: "start", "serve" or "fatal" (log.Fatalf)
    tried,          \* the backends selectVendor set out to create, with the outcome
    svc,            \* the transcribe.Service main holds: a backend or "none"
    smu,            \* the service's mutex (WhisperTranscriber.mu, RecorderTranscriber.mu)
    counter,        \* the service's counter
    cs,             \* per session, its CreateStream call and the streams it got
    \* ---- the HTTP server: sessionStore and the requests in progress
    sessions,       \* sessionStore.sessions: per token, whether it is in the map and its ExpiresAt
    now,            \* the clock time.Now() reads
    req,            \* per browser, its request: position, route, cookie, and history
    ah              \* history of the store: tokens issued, when, and those deleted

streamVars == <<kind, opts, mu, isClosed, file, results, resultsClosed, conn,
                lpc, lres, nMsgs, panics, call, gh>>
clientVars == <<nCalls, consumed>>
pumpVars == <<track, tpos, rpc, rpkt, audioStream, audioClosed, response, errs,
              timerArmed, timerC, ctxDone, ppc, pchunk, ret, dcSent, dcClosed, ph>>
peerVars == <<audioTrack, dataChannel, dataChan, cb, nPumps>>
authVars == <<sessions, now, req, ah>>
svcVars == <<env, mpc, tried, svc, smu, counter, cs, authVars>>
vars == <<streamVars, clientVars, pumpVars, peerVars, svcVars>>

\* ---------------------------------------------------------------- helpers
\* A byte count hi * 2^32 + lo (file sizes are int64, and a stream may take 4 GiB of
\* audio and more).  lo stays small in absolute value; it is negative only in the
\* length of a buffer or of the audio, never in the size of the file.
Bytes(hi, lo) == [hi |-> hi, lo |-> lo]
\* a + b
Plus(a, b) == [hi |-> a.hi + b.hi, lo |-> a.lo + b.lo]
\* uint32(x): the low 32 bits, for a count whose lo is in 0 .. 2^32 - 1
U32(x) == x.lo
\* Buffer lengths: 1 .. MaxChunk bytes, and one of 2^32 - 2 bytes (hi 1, lo -2),
\* which stands for the many writes of a session that records 4 GiB
ChunkSizes == {Bytes(0, n) : n \in 1..MaxChunk} \cup {Bytes(1, 0 - 2)}
\* What a failing file write may have appended of buffer b: a proper prefix
Prefixes(b) == {Bytes(0, n) : n \in 0..(IF b.hi = 0 THEN b.lo - 1 ELSE MaxChunk)}

ResultsCap ==
    CASE kind = "whisper" -> WhisperResultsCap
      [] kind = "recorder" -> RecorderResultsCap
      [] kind = "iflytek" -> IflyTekResultsCap
      [] kind = "azure" -> AzureResultsCap
      [] OTHER -> BaiduResultsCap

IdleFrame ==
    [op |-> "none", pc |-> "idle", arg |-> Bytes(0, 0), n |-> Bytes(0, 0), err |-> "nil",
     afterClose |-> FALSE, won |-> FALSE, io |-> FALSE, fsize |-> 0]

\* history of the stream: never read by the program's steps
GhInit ==
    [closeBegun |-> FALSE,     \* some Close call has started
     closeReturned |-> FALSE,  \* some Close call has returned
     nFinal |-> 0,             \* Close calls that went past the isClosed check
     nNoop |-> 0,              \* Close calls that returned at the isClosed check
     nRecog |-> 0,             \* invocations of the external recognizer that have finished
     nExec |-> 0,              \* invocations of the external recognizer that were started
     args |-> <<>>,            \* the language arguments of the last invocation started
     recogOut |-> "none",      \* the outcome of the recognizer in Close, if it ran
     nPush |-> 0,              \* Results pushed by Close
     nChanClose |-> 0,         \* executions of close(results)
     nConnClose |-> 0,         \* executions of conn.Close()
     nBytes |-> Bytes(0, 0),   \* the total of the counts returned by the Write calls
     statDone |-> FALSE,       \* Close has read the file size with Stat
     statSize |-> Bytes(0, 0), \* the size it read
     lateAppend |-> FALSE,     \* bytes were appended after Close read the size
     preResults |-> {}]        \* Results decoded from messages read before Close began

\* history of the pump
PhInit ==
    [earlyTimeout |-> FALSE,   \* the timer fired while reader or pump could still step
     decodeFailed |-> FALSE,   \* some packet failed to decode
     writeFailed |-> FALSE,    \* some Write returned an error
     written |-> <<>>,         \* ids of the packets whose Write succeeded, in order
     timedOut |-> FALSE,       \* the pump's select took the <-timer.C case
     lateRead |-> FALSE,       \* the reader went on to ReadRTP with ctx.Done() closed
     nClose |-> 0]             \* Close calls made by the pump

Frame(t) == call[t]
Returns(t, n, e) == [call EXCEPT ![t].pc = "ret", ![t].n = n, ![t].err = e]

\* sync.Mutex.Unlock by t
Unlocked(t) == IF mu = t THEN "none" ELSE mu

\* fileInfo.Size(): the header and the audio appended
FileLen == Plus(Bytes(0, WavHeaderSize), file.audio)

\* transcribe.Result; conf is the confidence in tenths
MkResult(id, text, final, audioFile, textFile, conf) ==
    [id |-> id, text |-> text, final |-> final, audioFile |-> audioFile, textFile |-> textFile,
     conf |-> conf]

\* the listener holds no Result
NoResult == MkResult(0, "", FALSE, FALSE, FALSE, 0)

MkFrame(op, pc, arg) ==
    [IdleFrame EXCEPT !.op = op, !.pc = pc, !.arg = arg, !.afterClose = gh.closeReturned]

\* file.Close() followed by os.Remove(filePath)
ClosedAndRemoved(f) == [f EXCEPT !.open = FALSE, !.exists = FALSE]

\* --------------------------------------------- Whisper / Recorder: Write
\* Write entered without ws.mu.Lock()
WLock_NoMutex(t) ==
    /\ Frame(t).pc = "w_lock"
    /\ call' = [call EXCEPT ![t].pc = "w_check"]
    /\ UNCHANGED <<svcVars, peerVars, kind, opts, mu, isClosed, file, results, resultsClosed, conn, lpc, lres,
                   nMsgs, panics, gh, clientVars, pumpVars>>

\* ws.mu.Lock()
WLock(t) ==
    /\ Frame(t).pc = "w_lock"
    /\ mu = "none"
    /\ mu' = t
    /\ call' = [call EXCEPT ![t].pc = "w_check"]
    /\ UNCHANGED <<svcVars, peerVars, kind, opts, isClosed, file, results, resultsClosed, conn, lpc, lres,
                   nMsgs, panics, gh, clientVars, pumpVars>>

\* Write without the isClosed test
WCheck_NoClosedTest(t) ==
    /\ Frame(t).pc = "w_check"
    /\ call' = [call EXCEPT ![t].pc = "w_io"]
    /\ UNCHANGED <<svcVars, peerVars, kind, opts, mu, isClosed, file, results, resultsClosed, conn, lpc, lres,
                   nMsgs, panics, gh, clientVars, pumpVars>>

\* if ws.isClosed { return 0, "stream is closed" }   (the deferred Unlock runs)
WCheck(t) ==
    /\ Frame(t).pc = "w_check"
    /\ IF isClosed
          THEN /\ call' = Returns(t, Bytes(0, 0), "closed")
               /\ mu' = Unlocked(t)
          ELSE /\ call' = [call EXCEPT ![t].pc = "w_io"]
               /\ mu' = mu
    /\ UNCHANGED <<svcVars, peerVars, kind, opts, isClosed, file, results, resultsClosed, conn, lpc, lres,
                   nMsgs, panics, gh, clientVars, pumpVars>>

\* written, err := ws.file.Write(buffer); Sync; return   (the deferred Unlock runs)
\* A failing write may have appended a prefix of the buffer; a closed handle appends nothing.
WAppend(t) ==
    /\ Frame(t).pc = "w_io"
    /\ \E n \in Prefixes(Frame(t).arg) \cup {Frame(t).arg} :
          /\ ~file.open => n = Bytes(0, 0)
          /\ file' = [file EXCEPT !.audio = Plus(@, n)]
          /\ call' = [Returns(t, n, IF n = Frame(t).arg THEN "nil" ELSE "io") EXCEPT ![t].io = TRUE]
          /\ gh' = [gh EXCEPT !.lateAppend = @ \/ (n # Bytes(0, 0) /\ gh.statDone),
                              !.nBytes = Plus(@, n)]
    /\ mu' = Unlocked(t)
    /\ UNCHANGED <<svcVars, peerVars, kind, opts, isClosed, results, resultsClosed, conn, lpc, lres,
                   nMsgs, panics, clientVars, pumpVars>>

\* --------------------------------------------- Whisper / Recorder: Close
\* ws.mu.Lock()
CLock(t) ==
    /\ Frame(t).pc = "c_lock"
    /\ mu = "none"
    /\ mu' = t
    /\ call' = [call EXCEPT ![t].pc = "c_check"]
    /\ UNCHANGED <<svcVars, peerVars, kind, opts, isClosed, file, results, resultsClosed, conn, lpc, lres,
                   nMsgs, panics, gh, clientVars, pumpVars>>

\* Close that tests isClosed but never sets it
CCheck_FlagNotSet(t) ==
    /\ Frame(t).pc = "c_check"
    /\ IF isClosed
          THEN /\ call' = Returns(t, Bytes(0, 0), "nil")
               /\ gh' = [gh EXCEPT !.nNoop = @ + 1, !.closeReturned = TRUE]
          ELSE /\ call' = [call EXCEPT ![t].pc = "c_stat", ![t].won = TRUE]
               /\ gh' = [gh EXCEPT !.nFinal = @ + 1]
    /\ mu' = Unlocked(t)
    /\ UNCHANGED <<svcVars, peerVars, kind, opts, isClosed, file, results, resultsClosed, conn, lpc, lres,
                   nMsgs, panics, clientVars, pumpVars>>

\* if ws.isClosed { Unlock; return nil }; ws.isClosed = true; Unlock
CCheck(t) ==
    /\ Frame(t).pc = "c_check"
    /\ IF isClosed
          THEN /\ call' = Returns(t, Bytes(0, 0), "nil")
               /\ gh' = [gh EXCEPT !.nNoop = @ + 1, !.closeReturned = TRUE]
               /\ isClosed' = isClosed
          ELSE /\ call' = [call EXCEPT ![t].pc = "c_stat", ![t].won = TRUE]
               /\ gh' = [gh EXCEPT !.nFinal = @ + 1]
               /\ isClosed' = TRUE
    /\ mu' = Unlocked(t)
    /\ UNCHANGED <<svcVars, peerVars, kind, opts, file, results, resultsClosed, conn, lpc, lres,
                   nMsgs, panics, clientVars, pumpVars>>

\* Close that goes from Stat to the recognizer, leaving the header and the handle alone
CStat_SkipsHeader(t) ==
    /\ Frame(t).pc = "c_stat"
    /\ \E ok \in BOOLEAN :
          LET fileSize == U32(FileLen) IN
          IF ~ok
             THEN /\ file' = ClosedAndRemoved(file)
                  /\ call' = Returns(t, Bytes(0, 0), "stat")
                  /\ gh' = [gh EXCEPT !.closeReturned = TRUE]
             ELSE IF fileSize < WavHeaderSize
                     THEN /\ file' = ClosedAndRemoved(file)
                          /\ call' = Returns(t, Bytes(0, 0), "too small")
                          /\ gh' = [gh EXCEPT !.closeReturned = TRUE, !.statDone = TRUE,
                                               !.statSize = FileLen]
                     ELSE /\ file' = file
                          /\ call' = [call EXCEPT ![t].pc = "c_post", ![t].fsize = fileSize]
                          /\ gh' = [gh EXCEPT !.statDone = TRUE, !.statSize = FileLen]
    /\ UNCHANGED <<svcVars, peerVars, kind, opts, mu, isClosed, results, resultsClosed, conn, lpc, lres,
                   nMsgs, panics, clientVars, pumpVars>>


\* Sync; fileInfo, err := file.Stat(); fileSize := uint32(fileInfo.Size()); if fileSize < 44 {...}
CStat(t) ==
    /\ Frame(t).pc = "c_stat"
    /\ \E ok \in BOOLEAN :
          LET fileSize == U32(FileLen) IN
          IF ~ok
             THEN /\ file' = ClosedAndRemoved(file)
                  /\ call' = Returns(t, Bytes(0, 0), "stat")
                  /\ gh' = [gh EXCEPT !.closeReturned = TRUE]
             ELSE IF fileSize < WavHeaderSize
                     THEN /\ file' = ClosedAndRemoved(file)
                          /\ call' = Returns(t, Bytes(0, 0), "too small")
                          /\ gh' = [gh EXCEPT !.closeReturned = TRUE, !.statDone = TRUE,
                                               !.statSize = FileLen]
                     ELSE /\ file' = file
                          /\ call' = [call EXCEPT ![t].pc = "c_hdr", ![t].fsize = fileSize]
                          /\ gh' = [gh EXCEPT !.statDone = TRUE, !.statSize = FileLen]
    /\ UNCHANGED <<svcVars, peerVars, kind, opts, mu, isClosed, results, resultsClosed, conn, lpc, lres,
                   nMsgs, panics, clientVars, pumpVars>>

\* Seek(4); write chunkSize = fileSize - 8; Seek(40); write audioDataSize = fileSize - 44; Sync
\* "fail4": the seek or write at offset 4 failed; "fail40": the one at offset 40.
CPatch(t) ==
    /\ Frame(t).pc = "c_hdr"
    /\ \E o \in {"ok", "fail4", "fail40"} :
          LET chunkSize == Frame(t).fsize - 8
              audioDataSize == Frame(t).fsize - WavHeaderSize
          IN  IF o = "ok"
                 THEN /\ file' = [file EXCEPT !.chunkSize = chunkSize, !.dataSize = audioDataSize,
                                              !.patched = {4, 40}]
                      /\ call' = [call EXCEPT ![t].pc = "c_fclose"]
                      /\ gh' = gh
                 ELSE /\ file' = ClosedAndRemoved(
                                   IF o = "fail40"
                                      THEN [file EXCEPT !.chunkSize = chunkSize, !.patched = {4}]
                                      ELSE file)
                      /\ call' = Returns(t, Bytes(0, 0), "header")
                      /\ gh' = [gh EXCEPT !.closeReturned = TRUE]
    /\ UNCHANGED <<svcVars, peerVars, kind, opts, mu, isClosed, results, resultsClosed, conn, lpc, lres,
                   nMsgs, panics, clientVars, pumpVars>>

\* Close that returns the error of file.Close() and leaves the file on disk
CFileClose_LeavesFile(t) ==
    /\ Frame(t).pc = "c_fclose"
    /\ \E ok \in BOOLEAN :
          IF ok
             THEN /\ file' = [file EXCEPT !.open = FALSE]
                  /\ call' = [call EXCEPT ![t].pc = "c_post"]
                  /\ gh' = gh
             ELSE /\ file' = [file EXCEPT !.open = FALSE]
                  /\ call' = Returns(t, Bytes(0, 0), "close")
                  /\ gh' = [gh EXCEPT !.closeReturned = TRUE]
    /\ UNCHANGED <<svcVars, peerVars, kind, opts, mu, isClosed, results, resultsClosed, conn, lpc, lres,
                   nMsgs, panics, clientVars, pumpVars>>

\* if err := file.Close(); err != nil { os.Remove; return err }
CFileClose(t) ==
    /\ Frame(t).pc = "c_fclose"
    /\ \E ok \in BOOLEAN :
          IF ok
             THEN /\ file' = [file EXCEPT !.open = FALSE]
                  /\ call' = [call EXCEPT ![t].pc = "c_post"]
                  /\ gh' = gh
             ELSE /\ file' = ClosedAndRemoved(file)
                  /\ call' = Returns(t, Bytes(0, 0), "close")
                  /\ gh' = [gh EXCEPT !.closeReturned = TRUE]
    /\ UNCHANGED <<svcVars, peerVars, kind, opts, mu, isClosed, results, resultsClosed, conn, lpc, lres,
                   nMsgs, panics, clientVars, pumpVars>>

\* The tail of Close with os.Remove run whatever the retention setting
Finish_RemovesWav(t, push, f0, removeWav, recog) ==
    LET removed == [f0 EXCEPT !.exists = FALSE]
        ran == IF recog = "none" THEN 0 ELSE 1
    IN
    IF resultsClosed
       THEN /\ panics' = panics \cup {IF push # <<>> THEN "send on closed channel"
                                                    ELSE "close of closed channel"}
            /\ call' = [call EXCEPT ![t].pc = "panicked"]
            /\ file' = IF push = <<>> THEN removed ELSE f0
            /\ gh' = [gh EXCEPT !.nRecog = @ + ran, !.recogOut = recog,
                                !.nChanClose = @ + (IF push = <<>> THEN 1 ELSE 0)]
            /\ UNCHANGED <<results, resultsClosed>>
       ELSE /\ Len(results) + Len(push) <= ResultsCap
            /\ results' = results \o push
            /\ resultsClosed' = TRUE
            /\ file' = removed
            /\ call' = Returns(t, Bytes(0, 0), "nil")
            /\ gh' = [gh EXCEPT !.nRecog = @ + ran, !.recogOut = recog,
                                !.nPush = @ + Len(push),
                                !.nChanClose = @ + 1, !.closeReturned = TRUE]
            /\ panics' = panics

\* The tail of Close, from file state f0: push the Results in `push` (none or one),
\* os.Remove the WAV when `removeWav`, close(results), return nil.  A send on, or a
\* close of, a closed channel panics; a send on a full channel blocks.  `recog` is the
\* outcome of the recognizer, "none" when it was not run.
Finish(t, push, f0, removeWav, recog) ==
    LET removed == IF removeWav THEN [f0 EXCEPT !.exists = FALSE] ELSE f0
        ran == IF recog = "none" THEN 0 ELSE 1
    IN
    IF resultsClosed
       THEN /\ panics' = panics \cup {IF push # <<>> THEN "send on closed channel"
                                                    ELSE "close of closed channel"}
            /\ call' = [call EXCEPT ![t].pc = "panicked"]
            /\ file' = IF push = <<>> THEN removed ELSE f0
            /\ gh' = [gh EXCEPT !.nRecog = @ + ran, !.recogOut = recog,
                                !.nChanClose = @ + (IF push = <<>> THEN 1 ELSE 0)]
            /\ UNCHANGED <<results, resultsClosed>>
       ELSE /\ Len(results) + Len(push) <= ResultsCap
            /\ results' = results \o push
            /\ resultsClosed' = TRUE
            /\ file' = removed
            /\ call' = Returns(t, Bytes(0, 0), "nil")
            /\ gh' = [gh EXCEPT !.nRecog = @ + ran, !.recogOut = recog,
                                !.nPush = @ + Len(push),
                                !.nChanClose = @ + 1, !.closeReturned = TRUE]
            /\ panics' = panics

\* Whisper: if fileSize == 44 {remove; close(results)}; if !transcribe {push; close(results)}
\* Recorder: push Result{fileName}; close(results); validateWAVFile
CPost(t) ==
    /\ Frame(t).pc = "c_post"
    /\ IF kind = "recorder"
          THEN Finish(t, <<MkResult(1, "file name", TRUE, FALSE, FALSE, 10)>>, file, FALSE, "none")
          ELSE IF Frame(t).fsize = WavHeaderSize
                  THEN Finish(t, <<>>, file, TRUE, "none")
                  ELSE IF ~opts.transcribe
                          THEN Finish(t, <<MkResult(1, "recording saved", TRUE, TRUE, FALSE, 10)>>,
                                      file, FALSE, "none")
                          ELSE /\ call' = [call EXCEPT ![t].pc = "c_recog"]
                               /\ UNCHANGED <<file, results, resultsClosed, panics, gh>>
    /\ UNCHANGED <<svcVars, peerVars, kind, opts, mu, isClosed, conn, lpc, lres, nMsgs, clientVars, pumpVars>>

\* language the service falls back to: if language == "" { language = "auto" }
DefaultLanguage(flagL) == IF flagL = "" THEN "auto" ELSE flagL

\* The stream language with the request's language ignored
StreamLanguage_IgnoresRequest(optL, svcL) == svcL

\* language := opts.Language; if language == "" { language = w.language }
StreamLanguage(optL, svcL) == IF optL = "" THEN svcL ELSE optL

\* The arguments transcribeAudio puts between the fixed ones and the audio path:
\* language := ws.language; if language == "" { language = ws.transcriber.language };
\* if language != "" && language != "auto" { args = append(args, "--language", language) }
LanguageArgs(wsL, svcL) ==
    LET language == IF wsL = "" THEN svcL ELSE wsL
    IN  IF language # "" /\ language # "auto" THEN <<"--language", language>> ELSE <<>>

\* ws.transcribeAudio(ws.filePath) starts the recognizer: exec.CommandContext(...) and
\* cmd.CombinedOutput(), which runs the process and waits for it
CExec(t) ==
    /\ Frame(t).pc = "c_recog"
    /\ call' = [call EXCEPT ![t].pc = "c_run"]
    /\ gh' = [gh EXCEPT !.nExec = @ + 1, !.args = LanguageArgs(opts.language, opts.svcLanguage)]
    /\ UNCHANGED <<svcVars, peerVars, kind, opts, mu, isClosed, file, results, resultsClosed, conn, lpc,
                   lres, nMsgs, panics, clientVars, pumpVars>>

\* Close that returns the recognizer's error instead of reporting it in a Result
CRecog_ErrorIsFatal(t) ==
    /\ Frame(t).pc = "c_run"
    /\ \E o \in {"ok", "exec", "read", "empty"} :
          LET txtLeft == o \in {"ok", "empty"} /\ opts.keepTxt
              f0 == [file EXCEPT !.txt = txtLeft]
          IN  IF o = "ok"
                 THEN Finish(t, <<MkResult(1, "transcript", TRUE, TRUE, TRUE, 9)>>, f0,
                             ~opts.keepWav, o)
                 ELSE /\ call' = Returns(t, Bytes(0, 0), "recognizer")
                      /\ file' = f0
                      /\ gh' = [gh EXCEPT !.nRecog = @ + 1, !.recogOut = o,
                                          !.closeReturned = TRUE]
                      /\ UNCHANGED <<results, resultsClosed, panics>>
    /\ UNCHANGED <<svcVars, peerVars, kind, opts, mu, isClosed, conn, lpc, lres, nMsgs, clientVars, pumpVars>>

\* text, textFile, err := ws.transcribeAudio(ws.filePath) returns; push the Result;
\* remove the WAV unless keepWav; close(results)
\* o: the recognizer succeeds ("ok"), exits non-zero ("exec"), leaves no readable
\* output file ("read") or leaves an empty one ("empty").
CRecog(t) ==
    /\ Frame(t).pc = "c_run"
    /\ \E o \in {"ok", "exec", "read", "empty"} :
          LET txtLeft == o \in {"ok", "empty"} /\ opts.keepTxt
              r == IF o = "ok"
                      THEN MkResult(1, "transcript", TRUE, TRUE, TRUE, 9)
                      ELSE MkResult(1, "transcription error", TRUE, TRUE, FALSE, 0)
          IN  Finish(t, <<r>>, [file EXCEPT !.txt = txtLeft], ~opts.keepWav, o)
    /\ UNCHANGED <<svcVars, peerVars, kind, opts, mu, isClosed, conn, lpc, lres, nMsgs, clientVars, pumpVars>>


\* ------------------------------------------- IflyTek / Azure / Baidu: Write
\* A message handed to conn.WriteMessage.  status is XunfeiData.Status: 0 in the
\* configuration message CreateStream sends, 1 with a chunk of audio, 2 at the end
\* of the audio (for Azure and Baidu: their configuration, audio and end messages);
\* audio identifies the chunk the message carries (0: none); sent tells whether
\* WriteMessage returned nil.
XunfeiRequest(status, audio, sent) == [status |-> status, audio |-> audio, sent |-> sent]

\* Build the frame and conn.WriteMessage it; there is no closed flag to consult.
\* On an open connection the send may still fail (network).
WsWrite(t) ==
    /\ Frame(t).pc = "ws_write"
    /\ \E ok \in BOOLEAN :
          LET sent == conn.open /\ ok
              chunk == IF t = "pump" THEN pchunk ELSE 0
          IN  /\ conn' = [conn EXCEPT !.frames = Append(@, XunfeiRequest(1, chunk, sent))]
              /\ call' = [(IF sent THEN Returns(t, Frame(t).arg, "nil")
                                   ELSE Returns(t, Bytes(0, 0), "send failed"))
                          EXCEPT ![t].io = TRUE]
    /\ UNCHANGED <<svcVars, peerVars, kind, opts, mu, isClosed, file, results, resultsClosed, lpc, lres,
                   nMsgs, panics, gh, clientVars, pumpVars>>

\* ------------------------------------------- IflyTek / Azure / Baidu: Close
\* Close that goes on to conn.Close() without sending the end-of-audio frame
WsCloseEnd_SendsNothing(t) ==
    /\ Frame(t).pc = "ws_end"
    /\ conn' = conn
    /\ call' = [call EXCEPT ![t].pc = "ws_conn", ![t].io = TRUE]
    /\ UNCHANGED <<svcVars, peerVars, kind, opts, mu, isClosed, file, results, resultsClosed, lpc, lres,
                   nMsgs, panics, gh, clientVars, pumpVars>>

\* conn.WriteMessage(end-of-audio frame); a failure is ignored or logged
WsCloseEnd(t) ==
    /\ Frame(t).pc = "ws_end"
    /\ \E ok \in BOOLEAN :
          conn' = [conn EXCEPT !.frames = Append(@, XunfeiRequest(2, 0, conn.open /\ ok))]
    /\ call' = [call EXCEPT ![t].pc = "ws_conn", ![t].io = TRUE]
    /\ UNCHANGED <<svcVars, peerVars, kind, opts, mu, isClosed, file, results, resultsClosed, lpc, lres,
                   nMsgs, panics, gh, clientVars, pumpVars>>

\* conn.Close(); an error is only logged
WsCloseConn(t) ==
    /\ Frame(t).pc = "ws_conn"
    /\ conn' = [conn EXCEPT !.open = FALSE]
    /\ call' = [call EXCEPT ![t].pc = "ws_chan"]
    /\ gh' = [gh EXCEPT !.nConnClose = @ + 1]
    /\ UNCHANGED <<svcVars, peerVars, kind, opts, mu, isClosed, file, results, resultsClosed, lpc, lres,
                   nMsgs, panics, clientVars, pumpVars>>

\* close(st.results); return nil
WsCloseChan(t) ==
    /\ Frame(t).pc = "ws_chan"
    /\ IF resultsClosed
          THEN /\ panics' = panics \cup {"close of closed channel"}
               /\ call' = [call EXCEPT ![t].pc = "panicked"]
               /\ gh' = [gh EXCEPT !.nChanClose = @ + 1]
               /\ resultsClosed' = resultsClosed
          ELSE /\ resultsClosed' = TRUE
               /\ call' = Returns(t, Bytes(0, 0), "nil")
               /\ gh' = [gh EXCEPT !.nChanClose = @ + 1, !.closeReturned = TRUE]
               /\ panics' = panics
    /\ UNCHANGED <<svcVars, peerVars, kind, opts, mu, isClosed, file, results, conn, lpc, lres,
                   nMsgs, clientVars, pumpVars>>

\* ------------------------------------------------------------ the listener
\* What one inbound message is to listenForResults:
\*   "final", "partial": a recognition with text;  "skip": one that yields no Result
\*   (unparsable, an error code, empty text);  "end": Azure's and Baidu's end message.
MsgKinds == {"final", "partial", "skip", "end"}
\* The Confidence of the Result built from message m, in tenths: Azure copies the
\* message's own confidence, IflyTek gives 0.9 to a final and 0.8 to a partial result,
\* Baidu gives 0.9.
MsgConfs(m) ==
    IF m \notin {"final", "partial"} THEN {0}
    ELSE CASE kind = "azure" -> {0, 10}
           [] kind = "iflytek" -> {IF m = "final" THEN 9 ELSE 8}
           [] OTHER -> {9}

\* select { case <-ctx.Done(): return; default: conn.ReadMessage() } and the decoding
\* of the message.  ctx is main's context.Background(), which is never cancelled.
\* ReadMessage fails once the connection is closed, and may fail before (network).
LRead ==
    /\ lpc = "read"
    /\ \/ /\ lpc' = "done"
          /\ UNCHANGED <<lres, nMsgs, gh>>
       \/ /\ conn.open
          /\ nMsgs < MaxMsgs
          /\ nMsgs' = nMsgs + 1
          /\ \E m \in MsgKinds : \E cf \in MsgConfs(m) :
                LET isFinal == IF kind = "azure" THEN m = "final" ELSE (kind = "baidu" \/ m = "final")
                    r == MkResult(nMsgs + 1, "text", isFinal, FALSE, FALSE, cf)
                IN  IF m \in {"final", "partial"}
                       THEN /\ lpc' = "send"
                            /\ lres' = r
                            /\ gh' = IF gh.closeBegun THEN gh
                                     ELSE [gh EXCEPT !.preResults = @ \cup {nMsgs + 1}]
                       ELSE /\ lpc' = IF m = "end" /\ kind # "iflytek" THEN "done" ELSE "read"
                            /\ UNCHANGED <<lres, gh>>
    /\ UNCHANGED <<svcVars, peerVars, kind, opts, mu, isClosed, file, results, resultsClosed, conn,
                   panics, call, clientVars, pumpVars>>

\* IflyTek:      st.results <- Result{...}            (unbuffered, blocking)
\* Azure, Baidu: select { case results <- result: ; case <-ctx.Done(): ; default: skip }
\* A send on a closed channel panics; the deferred recover() ends the listener.
\* The unbuffered send completes only in a rendezvous with a receiver (see Recv).
LSend ==
    /\ lpc = "send"
    /\ IF resultsClosed
          THEN /\ panics' = panics \cup {"send on closed channel"}
               /\ lpc' = "done"
               /\ results' = results
          ELSE /\ kind # "iflytek"
               /\ results' = IF Len(results) < ResultsCap THEN Append(results, lres) ELSE results
               /\ lpc' = "read"
               /\ panics' = panics
    /\ lres' = NoResult
    /\ UNCHANGED <<svcVars, peerVars, kind, opts, mu, isClosed, file, resultsClosed, conn,
                   nMsgs, call, gh, clientVars, pumpVars>>

\* ------------------------------------------- receiving from Results()
\* A receive is ready when a value is buffered, when the listener is parked in an
\* unbuffered send, or when the channel is closed (and then yields "closed").
Parked == kind = "iflytek" /\ lpc = "send" /\ ~resultsClosed
RecvReady == Len(results) > 0 \/ Parked \/ resultsClosed
RecvAtEnd == Len(results) = 0 /\ ~Parked /\ resultsClosed
RecvValue == IF Len(results) > 0 THEN Head(results) ELSE lres
RecvLpc == IF Len(results) = 0 /\ Parked THEN "read" ELSE lpc
RecvLres == IF Len(results) = 0 /\ Parked THEN NoResult ELSE lres

\* a receive that leaves the buffered value in the channel
RecvResults_KeepHead == results
\* the channel buffer after a receive
RecvResults == IF Len(results) > 0 THEN Tail(results) ELSE results


\* -------------------------------------------------- callers of the stream
\* A caller outside the pump starts Write(buffer) with a buffer of len bytes
ClientWrite(t) ==
    /\ Frame(t).pc \in {"idle", "ret"}
    /\ nCalls < MaxCalls
    /\ \E len \in ChunkSizes :
          call' = [call EXCEPT ![t] =
                     MkFrame("Write", IF kind \in FileKinds THEN "w_lock" ELSE "ws_write", len)]
    /\ nCalls' = nCalls + 1
    /\ UNCHANGED <<svcVars, peerVars, kind, opts, mu, isClosed, file, results, resultsClosed, conn, lpc, lres,
                   nMsgs, panics, gh, consumed, pumpVars>>

\* A caller outside the pump starts Close()
ClientClose(t) ==
    /\ Frame(t).pc \in {"idle", "ret"}
    /\ nCalls < MaxCalls
    /\ call' = [call EXCEPT ![t] =
                  MkFrame("Close", IF kind \in FileKinds THEN "c_lock" ELSE "ws_end", Bytes(0, 0))]
    /\ gh' = [gh EXCEPT !.closeBegun = TRUE]
    /\ nCalls' = nCalls + 1
    /\ UNCHANGED <<svcVars, peerVars, kind, opts, mu, isClosed, file, results, resultsClosed, conn, lpc, lres,
                   nMsgs, panics, consumed, pumpVars>>

\* for r := range stream.Results() { ... } run by a consumer outside the pump
Consume ==
    /\ ~consumed.done
    /\ RecvReady
    /\ consumed' = IF RecvAtEnd
                      THEN [consumed EXCEPT !.done = TRUE]
                      ELSE [consumed EXCEPT !.got = Append(@, RecvValue),
                                            !.disk = Append(@, [wav |-> file.exists,
                                                                txt |-> file.txt])]
    /\ results' = RecvResults
    /\ lpc' = RecvLpc
    /\ lres' = RecvLres
    /\ UNCHANGED <<svcVars, peerVars, kind, opts, mu, isClosed, file, resultsClosed, conn,
                   nMsgs, panics, call, gh, nCalls, pumpVars>>

\* --------------------------------------------------- the RTP reader goroutine
Pkts == track.pkts

\* for { select { case <-ctx.Done(): return; default: ...
RTop ==
    /\ rpc = "top"
    /\ rpc' = IF ctxDone THEN "exit" ELSE "read"
    /\ ph' = [ph EXCEPT !.lateRead = @ \/ (ctxDone /\ rpc' = "read")]
    /\ UNCHANGED <<svcVars, peerVars, streamVars, clientVars, track, tpos, rpkt, audioStream, audioClosed,
                   response, errs, timerArmed, timerC, ctxDone, ppc, pchunk, ret, dcSent,
                   dcClosed>>

\* The read step with io.EOF reported on errs like any other error
RRead_EofIsError ==
    /\ rpc = "read"
    /\ IF tpos < Len(Pkts)
          THEN /\ tpos' = tpos + 1
               /\ rpkt' = tpos + 1
               /\ timerArmed' = TRUE
               /\ rpc' = "send"
               /\ errs' = errs
          ELSE /\ track.end # "silent"
               /\ errs' = Append(errs, "read error")
               /\ rpc' = "exit"
               /\ UNCHANGED <<tpos, rpkt, timerArmed>>
    /\ UNCHANGED <<svcVars, peerVars, streamVars, clientVars, track, audioStream, audioClosed, response,
                   timerC, ctxDone, ppc, pchunk, ret, dcSent, dcClosed, ph>>

\* packet, err := track.ReadRTP(): the next packet, io.EOF, another error, or nothing
\* more (the read blocks); after a packet, timer.Reset(5 s)
RRead ==
    /\ rpc = "read"
    /\ IF tpos < Len(Pkts)
          THEN /\ tpos' = tpos + 1
               /\ rpkt' = tpos + 1
               /\ timerArmed' = TRUE
               /\ rpc' = "send"
               /\ errs' = errs
          ELSE /\ track.end # "silent"
               /\ errs' = IF track.end = "err" THEN Append(errs, "read error") ELSE errs
               /\ rpc' = "exit"
               /\ UNCHANGED <<tpos, rpkt, timerArmed>>
    /\ UNCHANGED <<svcVars, peerVars, streamVars, clientVars, track, audioStream, audioClosed, response,
                   timerC, ctxDone, ppc, pchunk, ret, dcSent, dcClosed, ph>>

\* select { case audioStream <- packet.Payload: ; case <-ctx.Done(): return }
RSend ==
    /\ rpc = "send"
    /\ \/ /\ Len(audioStream) < AudioStreamCap
          /\ audioStream' = Append(audioStream, rpkt)
          /\ rpc' = "wait"
       \/ /\ ctxDone
          /\ rpc' = "exit"
          /\ audioStream' = audioStream
    /\ rpkt' = 0
    /\ UNCHANGED <<svcVars, peerVars, streamVars, clientVars, track, tpos, audioClosed, response, errs,
                   timerArmed, timerC, ctxDone, ppc, pchunk, ret, dcSent, dcClosed, ph>>

\* The reader going back to the top of its loop without waiting for a response
RWait_NoHandshake ==
    /\ rpc = "wait"
    /\ rpc' = IF ctxDone THEN "exit" ELSE "top"
    /\ response' = response
    /\ UNCHANGED <<svcVars, peerVars, streamVars, clientVars, track, tpos, rpkt, audioStream, audioClosed, errs,
                   timerArmed, timerC, ctxDone, ppc, pchunk, ret, dcSent, dcClosed, ph>>

\* select { case <-response: ; case <-ctx.Done(): return }
RWait ==
    /\ rpc = "wait"
    /\ \/ /\ response > 0
          /\ response' = response - 1
          /\ rpc' = "top"
       \/ /\ ctxDone
          /\ rpc' = "exit"
          /\ response' = response
    /\ UNCHANGED <<svcVars, peerVars, streamVars, clientVars, track, tpos, rpkt, audioStream, audioClosed, errs,
                   timerArmed, timerC, ctxDone, ppc, pchunk, ret, dcSent, dcClosed, ph>>

\* defer close(audioStream)
RExit ==
    /\ rpc = "exit"
    /\ audioClosed' = TRUE
    /\ rpc' = "done"
    /\ UNCHANGED <<svcVars, peerVars, streamVars, clientVars, track, tpos, rpkt, audioStream, response, errs,
                   timerArmed, timerC, ctxDone, ppc, pchunk, ret, dcSent, dcClosed, ph>>

\* ------------------------------------------------------------ the idle timer
ReaderBlocked ==
    \/ rpc = "done"
    \/ rpc = "read" /\ tpos = Len(Pkts) /\ track.end = "silent"
    \/ rpc = "wait" /\ response = 0 /\ ~ctxDone
PumpBlocked ==
    ppc = "select" /\ audioStream = <<>> /\ ~audioClosed /\ errs = <<>> /\ ~timerC /\ ~ctxDone
\* Nothing but the passing of time can happen in the audio path
Quiescent == ReaderBlocked /\ PumpBlocked

\* The timer set by time.NewTimer / timer.Reset expires: a tick goes into timer.C
TimerFire ==
    /\ timerArmed
    /\ timerArmed' = FALSE
    /\ timerC' = TRUE
    /\ ph' = [ph EXCEPT !.earlyTimeout = @ \/ ~Quiescent]
    /\ UNCHANGED <<svcVars, peerVars, streamVars, clientVars, track, tpos, rpc, rpkt, audioStream, audioClosed,
                   response, errs, ctxDone, ppc, pchunk, ret, dcSent, dcClosed>>


\* --------------------------------------------------------- the pump goroutine
SelectReady ==
    (IF Len(audioStream) > 0 \/ audioClosed THEN {"audio"} ELSE {})
    \cup (IF timerC THEN {"timer"} ELSE {})
    \cup (IF errs # <<>> THEN {"errs"} ELSE {})
    \cup (IF ctxDone THEN {"ctx"} ELSE {})

\* The select loop with the timer case returning an error instead of nil
PumpSelect_TimeoutIsError ==
    /\ ppc = "select"
    /\ \E c \in SelectReady :
          IF c = "audio"
             THEN IF Len(audioStream) = 0
                     THEN \* !ok: return nil
                          /\ ret' = "nil"
                          /\ ppc' = "defer"
                          /\ UNCHANGED <<audioStream, response, call, pchunk, ph, timerC, errs, ctxDone>>
                     ELSE /\ audioStream' = Tail(audioStream)
                          /\ IF Pkts[Head(audioStream)] = "bad"
                                THEN \* decode failed: continue
                                     /\ ph' = [ph EXCEPT !.decodeFailed = TRUE]
                                     /\ UNCHANGED <<response, call, pchunk, ppc>>
                                ELSE \* select { case response <- true: default: }; Write(payload)
                                     /\ response' = IF response < ResponseCap THEN response + 1 ELSE response
                                     /\ call' = [call EXCEPT !["pump"] = MkFrame("Write",
                                                   IF kind \in FileKinds THEN "w_lock" ELSE "ws_write",
                                                   Bytes(0, MaxChunk))]
                                     /\ pchunk' = Head(audioStream)
                                     /\ ppc' = "write"
                                     /\ ph' = ph
                          /\ UNCHANGED <<ret, timerC, errs, ctxDone>>
             ELSE /\ ret' = IF c = "errs" THEN Head(errs) ELSE IF c = "timer" THEN "timeout" ELSE "nil"
                  /\ errs' = IF c = "errs" THEN Tail(errs) ELSE errs
                  /\ timerC' = IF c = "timer" THEN FALSE ELSE timerC
                  /\ ctxDone' = IF c \in {"timer", "errs"} THEN TRUE ELSE ctxDone
                  /\ ppc' = "defer"
                  /\ ph' = [ph EXCEPT !.timedOut = @ \/ c = "timer"]
                  /\ UNCHANGED <<audioStream, response, call, pchunk>>
    /\ UNCHANGED <<svcVars, peerVars, kind, opts, mu, isClosed, file, results, resultsClosed, conn, lpc, lres,
                   nMsgs, panics, gh, clientVars, track, tpos, rpc, rpkt, audioClosed,
                   timerArmed, dcSent, dcClosed>>

\* One pass of  for { select { case audioChunk, ok := <-audioStream: ...
\*   case <-timer.C: ... case err = <-errs: ... case <-ctx.Done(): ... } }
\* up to the call of trStream.Write.  select takes any one of the ready cases.
PumpSelect ==
    /\ ppc = "select"
    /\ \E c \in SelectReady :
          IF c = "audio"
             THEN IF Len(audioStream) = 0
                     THEN \* !ok: return nil
                          /\ ret' = "nil"
                          /\ ppc' = "defer"
                          /\ UNCHANGED <<audioStream, response, call, pchunk, ph, timerC, errs, ctxDone>>
                     ELSE /\ audioStream' = Tail(audioStream)
                          /\ IF Pkts[Head(audioStream)] = "bad"
                                THEN \* decode failed: continue
                                     /\ ph' = [ph EXCEPT !.decodeFailed = TRUE]
                                     /\ UNCHANGED <<response, call, pchunk, ppc>>
                                ELSE \* select { case response <- true: default: }; Write(payload)
                                     /\ response' = IF response < ResponseCap THEN response + 1 ELSE response
                                     /\ call' = [call EXCEPT !["pump"] = MkFrame("Write",
                                                   IF kind \in FileKinds THEN "w_lock" ELSE "ws_write",
                                                   Bytes(0, MaxChunk))]
                                     /\ pchunk' = Head(audioStream)
                                     /\ ppc' = "write"
                                     /\ ph' = ph
                          /\ UNCHANGED <<ret, timerC, errs, ctxDone>>
             ELSE /\ ret' = IF c = "errs" THEN Head(errs) ELSE "nil"
                  /\ errs' = IF c = "errs" THEN Tail(errs) ELSE errs
                  /\ timerC' = IF c = "timer" THEN FALSE ELSE timerC
                  /\ ctxDone' = IF c \in {"timer", "errs"} THEN TRUE ELSE ctxDone
                  /\ ppc' = "defer"
                  /\ ph' = [ph EXCEPT !.timedOut = @ \/ c = "timer"]
                  /\ UNCHANGED <<audioStream, response, call, pchunk>>
    /\ UNCHANGED <<svcVars, peerVars, kind, opts, mu, isClosed, file, results, resultsClosed, conn, lpc, lres,
                   nMsgs, panics, gh, clientVars, track, tpos, rpc, rpkt, audioClosed,
                   timerArmed, dcSent, dcClosed>>

\* _, err = trStream.Write(payload); if err != nil { return err }
PumpWriteRet ==
    /\ ppc = "write"
    /\ Frame("pump").pc = "ret"
    /\ IF Frame("pump").err = "nil"
          THEN /\ ppc' = "select"
               /\ ph' = [ph EXCEPT !.written = Append(@, pchunk)]
               /\ ret' = ret
          ELSE /\ ppc' = "defer"
               /\ ph' = [ph EXCEPT !.writeFailed = TRUE]
               /\ ret' = "write error"
    /\ call' = [call EXCEPT !["pump"] = IdleFrame]
    /\ pchunk' = 0
    /\ UNCHANGED <<svcVars, peerVars, kind, opts, mu, isClosed, file, results, resultsClosed, conn, lpc, lres,
                   nMsgs, panics, gh, clientVars, track, tpos, rpc, rpkt, audioStream,
                   audioClosed, response, errs, timerArmed, timerC, ctxDone,
                   dcSent, dcClosed>>

\* The deferred calls, last registered first: cancel(); timer.Stop(); then the
\* deferred closure, which begins with err := trStream.Close()
PumpDefer ==
    /\ ppc = "defer"
    /\ ctxDone' = TRUE
    /\ timerArmed' = FALSE
    /\ call' = [call EXCEPT !["pump"] =
                  MkFrame("Close", IF kind \in FileKinds THEN "c_lock" ELSE "ws_end", Bytes(0, 0))]
    /\ gh' = [gh EXCEPT !.closeBegun = TRUE]
    /\ ph' = [ph EXCEPT !.nClose = @ + 1]
    /\ ppc' = "closing"
    /\ UNCHANGED <<svcVars, peerVars, kind, opts, mu, isClosed, file, results, resultsClosed, conn, lpc, lres,
                   nMsgs, panics, clientVars, track, tpos, rpc, rpkt, audioStream,
                   audioClosed, response, errs, timerC, pchunk, ret, dcSent, dcClosed>>

\* if err != nil { log; return }      (the closure returns: no drain, no dc.Close)
PumpCloseRet ==
    /\ ppc = "closing"
    /\ Frame("pump").pc = "ret"
    /\ ppc' = IF Frame("pump").err = "nil" THEN "drain" ELSE "done"
    /\ UNCHANGED <<svcVars, peerVars, streamVars, clientVars, track, tpos, rpc, rpkt, audioStream, audioClosed,
                   response, errs, timerArmed, timerC, ctxDone, pchunk, ret, dcSent,
                   dcClosed, ph>>

\* for result := range trStream.Results() { json.Marshal; dc.Send(msg) }; dc.Close()
PumpDrain ==
    /\ ppc = "drain"
    /\ RecvReady
    /\ IF RecvAtEnd
          THEN /\ dcClosed' = TRUE
               /\ ppc' = "done"
               /\ dcSent' = dcSent
          ELSE /\ dcSent' = Append(dcSent, RecvValue.id)
               /\ UNCHANGED <<dcClosed, ppc>>
    /\ results' = RecvResults
    /\ lpc' = RecvLpc
    /\ lres' = RecvLres
    /\ UNCHANGED <<svcVars, peerVars, kind, opts, mu, isClosed, file, resultsClosed, conn, nMsgs, panics,
                   call, gh, clientVars, track, tpos, rpc, rpkt, audioStream, audioClosed,
                   response, errs, timerArmed, timerC, ctxDone, pchunk, ret, ph>>

\* ------------------------------------ the callbacks of CreatePeerConnection
\* pion runs each handler on a goroutine of its own.  audioTrack and dataChannel
\* are plain variables shared by the handlers with no lock (a data race).  The
\* write of OnTrack reaches memory, and so the other handlers, at some later moment
\* (Flush): nothing between the write and the read that follows orders them.  The
\* write of OnDataChannel is followed by a channel operation, which takes the
\* channel's lock, and is taken to be in memory before the handler reads on.
\* A handler reads its own pending write, and otherwise memory.
MyAudioTrack(c) == IF c # 0 /\ cb[c].store THEN c ELSE audioTrack
MyDataChannel(c) == dataChannel
\* audioTrack != nil && dataChannel != nil, as callback c reads them
BothReady(c) == MyAudioTrack(c) # 0 /\ MyDataChannel(c)

\* pc.OnTrack(func(track, r) { if track.Codec().Name == "opus" { ...
OnTrack(i) ==
    /\ i # 0
    /\ cb[i].pc = "wait"
    /\ \E codec \in {"opus", "other"} :
          cb' = [cb EXCEPT ![i].codec = codec,
                           ![i].pc = IF codec = "opus" THEN "write" ELSE "done"]
    /\ UNCHANGED <<audioTrack, dataChannel, dataChan, nPumps, streamVars, clientVars, pumpVars, svcVars>>

\* pc.OnDataChannel(func(dc) { log.Printf(...)
OnDataChannel ==
    /\ cb[0].pc = "wait"
    /\ cb' = [cb EXCEPT ![0].pc = "write"]
    /\ UNCHANGED <<audioTrack, dataChannel, dataChan, nPumps, streamVars, clientVars, pumpVars, svcVars>>

\* OnTrack: audioTrack = track
\* OnDataChannel: dataChannel = dc; select { case dataChan <- dc: default: }
SetShared(c) ==
    /\ cb[c].pc = "write"
    /\ cb' = [cb EXCEPT ![c].store = (c # 0), ![c].pc = "check"]
    /\ dataChannel' = IF c = 0 THEN TRUE ELSE dataChannel
    /\ dataChan' = IF c = 0 /\ dataChan < DataChanCap THEN dataChan + 1 ELSE dataChan
    /\ UNCHANGED <<audioTrack, nPumps, streamVars, clientVars, pumpVars, svcVars>>

\* the write audioTrack = track of callback c reaches memory
Flush(c) ==
    /\ cb[c].store
    /\ cb' = [cb EXCEPT ![c].store = FALSE]
    /\ audioTrack' = c
    /\ UNCHANGED <<dataChannel, dataChan, nPumps, streamVars, clientVars, pumpVars, svcVars>>

\* if audioTrack != nil && dataChannel != nil { startAudioProcessing() }
CheckBoth(c) ==
    /\ cb[c].pc = "check"
    /\ cb' = [cb EXCEPT ![c].pc = IF BothReady(c) THEN "start" ELSE "done"]
    /\ UNCHANGED <<audioTrack, dataChannel, dataChan, nPumps, streamVars, clientVars, pumpVars, svcVars>>

\* startAudioProcessing: if audioTrack != nil && dataChannel != nil {
\*     go func() { pi.handleAudioTrack(audioTrack, dataChannel) }() } else { log }
startAudioProcessing(c) ==
    /\ cb[c].pc = "start"
    /\ nPumps' = IF BothReady(c) THEN nPumps + 1 ELSE nPumps
    /\ cb' = [cb EXCEPT ![c].pc = "done"]
    /\ UNCHANGED <<audioTrack, dataChannel, dataChan, streamVars, clientVars, pumpVars, svcVars>>

\* ------------------------------------------------ startup: main, selectVendor
\* the backends in the order of automatic selection, under the names of their streams
Backends == <<"google", "azure", "baidu", "iflytek", "whisper", "recorder">>
\* automatic selection that probes for Baidu's credentials before Azure's
CloudOrder_BaiduBeforeAzure == <<"google", "baidu", "azure", "iflytek">>

\* the cloud backends automatic selection probes for credentials, in its order
CloudOrder == <<"google", "azure", "baidu", "iflytek">>

\* --vendor: not given, given empty, one the switch of selectVendor knows, or another
VendorFlags == {"google", "azure", "baidu", "xunfei", "whisper", "recorder"}
Flags == {"unset", "", "other"} \cup VendorFlags

\* What main finds.  google: GOOGLE_CREDENTIALS is empty, names credentials that
\* NewGoogleSpeech rejects, or names good ones.  azure, baidu, xunfei: the vendor's
\* variables are all non-empty.  whisperPath: WHISPER_PATH is empty, names no file, or
\* names the executable.  execFound: findWhisperExecutable finds one.  whisperDir,
\* recorderDir: MkdirAll of the output directory succeeds in NewWhisperTranscriber,
\* NewRecorderTranscriber.  getwd: os.Getwd succeeds.
Envs == [flag : Flags, google : {"absent", "invalid", "valid"},
         azure : BOOLEAN, baidu : BOOLEAN, xunfei : BOOLEAN,
         whisperPath : {"unset", "missing", "ok"}, execFound : BOOLEAN,
         whisperDir : BOOLEAN, recorderDir : BOOLEAN, getwd : BOOLEAN]

\* flag.String("vendor", "whisper", ...): the value main passes to selectVendor
Vendor(e) == IF e.flag = "unset" THEN "whisper" ELSE e.flag

\* the credentials selectVendor looks for are present
CredsPresent(e, b) ==
    CASE b = "google" -> e.google # "absent"
      [] b = "azure" -> e.azure
      [] b = "baidu" -> e.baidu
      [] OTHER -> e.xunfei

\* NewGoogleSpeech, NewAzureTranscriber, NewBaiduTranscriber, NewIflyTekTranscriber
\* called with the non-empty credentials: only Google's constructor examines them
NewCloud(e, b) == b = "google" => e.google = "valid"

\* NewWhisperTranscriber: the executable is given or found, MkdirAll, os.Stat
NewWhisperTranscriber(e) ==
    /\ e.whisperPath # "unset" \/ e.execFound
    /\ e.whisperDir
    /\ e.whisperPath # "missing"

\* NewRecorderTranscriber: MkdirAll
NewRecorderTranscriber(e) == e.recorderDir

Attempt(b, ok) == [b |-> b, ok |-> ok]
Selected(b, att) == [svc |-> b, tried |-> att]
Failed(att) == [svc |-> "none", tried |-> att]

\* Whisper, and the Recorder when NewWhisperTranscriber fails
WhisperOrRecorder(e) ==
    IF NewWhisperTranscriber(e)
       THEN Selected("whisper", <<Attempt("whisper", TRUE)>>)
       ELSE IF NewRecorderTranscriber(e)
               THEN Selected("recorder", <<Attempt("whisper", FALSE), Attempt("recorder", TRUE)>>)
               ELSE Failed(<<Attempt("whisper", FALSE), Attempt("recorder", FALSE)>>)

\* a cloud backend that selectVendor has decided on: its error is returned
Cloud(e, b) ==
    IF CredsPresent(e, b) /\ NewCloud(e, b)
       THEN Selected(b, <<Attempt(b, TRUE)>>)
       ELSE Failed(<<Attempt(b, FALSE)>>)

\* the first cloud backend from position i on whose credentials are present, or "none"
RECURSIVE FirstCloud(_, _)
FirstCloud(e, i) ==
    IF i > Len(CloudOrder) THEN "none"
    ELSE IF CredsPresent(e, CloudOrder[i]) THEN CloudOrder[i] ELSE FirstCloud(e, i + 1)

\* selectVendor: the switch on a given vendor, else the automatic selection
selectVendor(e) ==
    LET v == Vendor(e) IN
    IF v # ""
       THEN CASE v \in {"google", "azure", "baidu"} -> Cloud(e, v)
              [] v = "xunfei" -> Cloud(e, "iflytek")
              [] v = "whisper" -> WhisperOrRecorder(e)
              [] v = "recorder" ->
                    IF NewRecorderTranscriber(e)
                       THEN Selected("recorder", <<Attempt("recorder", TRUE)>>)
                       ELSE Failed(<<Attempt("recorder", FALSE)>>)
              [] OTHER -> Failed(<<>>)
       ELSE IF FirstCloud(e, 1) # "none"
               THEN Cloud(e, FirstCloud(e, 1))
               ELSE IF ~e.getwd THEN Failed(<<>>) ELSE WhisperOrRecorder(e)

\* tr, err = selectVendor(...); if err != nil { log.Fatalf(...) }
Main ==
    /\ mpc = "start"
    /\ LET r == selectVendor(env) IN
          /\ svc' = r.svc
          /\ tried' = r.tried
          /\ mpc' = IF r.svc = "none" THEN "fatal" ELSE "serve"
    /\ UNCHANGED <<authVars, env, smu, counter, cs, streamVars, clientVars, pumpVars, peerVars>>

\* ------------------------------- CreateStream of the Whisper / Recorder service
IdleSession == [pc |-> "idle", id |-> 0, n |-> 0, got |-> <<>>, failed |-> FALSE]
\* the file path built from the counter value and the time, which is formatted to
\* the second: whisper_audio_<id>_<time>.wav, recording_<time>_<id, at least 3 digits>.wav
Path(id, ts) == [service |-> svc, id |-> id, time |-> ts]

\* a session calls tr.CreateStream()
CreateStream(c) ==
    /\ mpc = "serve" /\ svc \in FileKinds
    /\ cs[c].pc = "idle" /\ cs[c].n < MaxStreams
    /\ cs' = [cs EXCEPT ![c].pc = "lock", ![c].n = @ + 1]
    /\ UNCHANGED <<authVars, env, mpc, tried, svc, smu, counter, streamVars, clientVars, pumpVars, peerVars>>

\* CreateStream entered without w.mu.Lock()
CsLock_NoMutex(c) ==
    /\ cs[c].pc = "lock"
    /\ cs' = [cs EXCEPT ![c].pc = "incr"]
    /\ UNCHANGED <<authVars, env, mpc, tried, svc, smu, counter, streamVars, clientVars, pumpVars, peerVars>>

\* w.mu.Lock()
CsLock(c) ==
    /\ cs[c].pc = "lock"
    /\ smu = "none"
    /\ smu' = c
    /\ cs' = [cs EXCEPT ![c].pc = "incr"]
    /\ UNCHANGED <<authVars, env, mpc, tried, svc, counter, streamVars, clientVars, pumpVars, peerVars>>

\* w.counter++
CsIncr(c) ==
    /\ cs[c].pc = "incr"
    /\ counter' = counter + 1
    /\ cs' = [cs EXCEPT ![c].pc = "read"]
    /\ UNCHANGED <<authVars, env, mpc, tried, svc, smu, streamVars, clientVars, pumpVars, peerVars>>

\* streamID := w.counter; w.mu.Unlock()
CsRead(c) ==
    /\ cs[c].pc = "read"
    /\ cs' = [cs EXCEPT ![c].pc = "create", ![c].id = counter]
    /\ smu' = IF smu = c THEN "none" ELSE smu
    /\ UNCHANGED <<authVars, env, mpc, tried, svc, counter, streamVars, clientVars, pumpVars, peerVars>>

\* the file name from the counter value and time.Now(); MkdirAll; os.Create; the
\* header writes.  Any of the file operations may fail, and then no stream is returned.
CsCreate(c) ==
    /\ cs[c].pc = "create"
    /\ \E ts \in 1..MaxTime, ok \in BOOLEAN :
          cs' = [cs EXCEPT ![c].pc = "idle",
                           ![c].got = IF ok THEN Append(@, Path(cs[c].id, ts)) ELSE @,
                           ![c].failed = @ \/ ~ok]
    /\ UNCHANGED <<authVars, env, mpc, tried, svc, smu, counter, streamVars, clientVars, pumpVars, peerVars>>

\* ------------------------------------- the HTTP server: sessions and routes
\* sessionDuration (24 h) in ticks of the clock: the clock counts periods of 24 hours
sessionDuration == 1
Browsers == {"b1", "b2"}
\* Session tokens in the order createSession issues them.  generateSessionToken
\* returns 32 bytes of crypto/rand: a token is taken never to repeat and never to be
\* sent by a browser before it was issued.
Tokens == 1..MaxLogins
\* cookie values besides the tokens: no cookie (or an empty one), and a value that
\* createSession never issued
NoCookie == 0 - 1
Forged == 0
Protected == {"/session", "/recordings/", "/files", "/delete/"}
Routes == Protected \cup {"/login", "/logout"}
IdleRequest ==
    [pc |-> "idle", route |-> "/login", cookie |-> NoCookie,
     good |-> FALSE,     \* its token was issued, not deleted and not expired when checked
     stale |-> FALSE,    \* its token had been deleted or had expired when it arrived
     served |-> FALSE]   \* the route's handler logic has run for it

\* The token was deleted by deleteSession, or time.Now() is after its ExpiresAt
Revoked(tok) ==
    /\ tok \in 1..ah.nIssued
    /\ tok \in ah.deleted \/ now > ah.issuedAt[tok] + sessionDuration
\* The token was issued by createSession and is not revoked
Good(tok) == tok \in 1..ah.nIssued /\ ~Revoked(tok)

\* validateSession with no test of ExpiresAt
validateSession_NoExpiry(token) ==
    /\ token \in Tokens
    /\ sessions[token].present

\* session, exists := s.sessions[token]; if !exists { false };
\* if time.Now().After(session.ExpiresAt) { false }; true        (under s.mu.RLock)
validateSession(token) ==
    /\ token \in Tokens
    /\ sessions[token].present
    /\ ~(now > sessions[token].expiresAt)

\* The passing of time
Tick ==
    /\ now < MaxNow
    /\ now' = now + 1
    /\ UNCHANGED <<sessions, req, ah, env, mpc, tried, svc, smu, counter, cs,
                   streamVars, clientVars, pumpVars, peerVars>>

\* A request arrives from browser b: any route, with no cookie, with a value that is
\* no token, or with a token issued so far
Request(b) ==
    /\ req[b].pc \in {"idle", "done", "rejected"}
    /\ ah.nReq < MaxRequests
    /\ \E route \in Routes, cookie \in {NoCookie, Forged} \cup 1..ah.nIssued :
          req' = [req EXCEPT ![b] = [IdleRequest EXCEPT !.pc = "recv", !.route = route,
                                                       !.cookie = cookie,
                                                       !.stale = Revoked(cookie)]]
    /\ ah' = [ah EXCEPT !.nReq = @ + 1]
    /\ UNCHANGED <<sessions, now, env, mpc, tried, svc, smu, counter, cs,
                   streamVars, clientVars, pumpVars, peerVars>>

\* loginHandler: with a known username and its password, createSession stores a new
\* token with ExpiresAt = time.Now().Add(sessionDuration); otherwise 401
loginHandler(b) ==
    /\ req[b].pc = "recv" /\ req[b].route = "/login"
    /\ \E credentialsOk \in BOOLEAN :
          IF credentialsOk /\ ah.nIssued < MaxLogins
             THEN LET token == ah.nIssued + 1 IN
                  /\ sessions' = [sessions EXCEPT ![token] =
                                      [present |-> TRUE, expiresAt |-> now + sessionDuration]]
                  /\ ah' = [ah EXCEPT !.nIssued = token, !.issuedAt[token] = now]
                  /\ req' = [req EXCEPT ![b].pc = "done"]
             ELSE /\ req' = [req EXCEPT ![b].pc = "rejected"]
                  /\ UNCHANGED <<sessions, ah>>
    /\ UNCHANGED <<now, env, mpc, tried, svc, smu, counter, cs,
                   streamVars, clientVars, pumpVars, peerVars>>

\* logoutHandler: if the request has a non-empty cookie, deleteSession(cookie.Value)
logoutHandler(b) ==
    /\ req[b].pc = "recv" /\ req[b].route = "/logout"
    /\ LET token == req[b].cookie IN
       /\ sessions' = IF token \in Tokens
                          THEN [sessions EXCEPT ![token].present = FALSE]
                          ELSE sessions
       /\ ah' = IF token \in 1..ah.nIssued THEN [ah EXCEPT !.deleted = @ \cup {token}] ELSE ah
    /\ req' = [req EXCEPT ![b].pc = "done"]
    /\ UNCHANGED <<now, env, mpc, tried, svc, smu, counter, cs,
                   streamVars, clientVars, pumpVars, peerVars>>

\* authMiddleware, and the same test at the head of the /files and /delete/
\* handlers: no cookie or an empty one: 401; validateSession fails: 401; otherwise
\* the request goes on to the handler
authMiddleware(b) ==
    /\ req[b].pc = "recv" /\ req[b].route \in Protected
    /\ req' = [req EXCEPT ![b].pc = IF req[b].cookie # NoCookie /\ validateSession(req[b].cookie)
                                        THEN "handler" ELSE "rejected",
                          ![b].good = Good(req[b].cookie)]
    /\ UNCHANGED <<sessions, now, ah, env, mpc, tried, svc, smu, counter, cs,
                   streamVars, clientVars, pumpVars, peerVars>>

\* next.ServeHTTP(w, r), or the rest of the /files or /delete/ handler
ServeHTTP(b) ==
    /\ req[b].pc = "handler"
    /\ req' = [req EXCEPT ![b].pc = "done", ![b].served = TRUE]
    /\ UNCHANGED <<sessions, now, ah, env, mpc, tried, svc, smu, counter, cs,
                   streamVars, clientVars, pumpVars, peerVars>>

\* ------------------------------------------------------------ specifications
\* patched: the offsets in the file at which Close has overwritten four bytes
NoFile == [exists |-> FALSE, open |-> FALSE, chunkSize |-> 0, dataSize |-> 0,
           audio |-> Bytes(0, 0), txt |-> FALSE, patched |-> {}]
\* the file CreateStream leaves: the 44-byte header with both size fields zero
NewFile == [NoFile EXCEPT !.exists = TRUE, !.open = TRUE]
\* The stream's settings.  reqLanguage: StreamOptions.Language as passed to
\* CreateStreamWithOptions; flagLanguage: the language passed to
\* NewWhisperTranscriber; svcLanguage: WhisperTranscriber.language; language:
\* WhisperStream.language
MkOpts(transcribe, keepWav, keepTxt, optL, flagL) ==
    [transcribe |-> transcribe, keepWav |-> keepWav, keepTxt |-> keepTxt,
     reqLanguage |-> optL, flagLanguage |-> flagL,
     svcLanguage |-> DefaultLanguage(flagL),
     language |-> StreamLanguage(optL, DefaultLanguage(flagL))]
DefaultOpts == MkOpts(TRUE, TRUE, TRUE, "", "auto")

\* The stream as CreateStream / CreateStreamWithOptions returns it, for a request
\* with a language in `requested` on a service configured with one in `configured`
StreamWith(kinds, transcribeChoices, requested, configured) ==
    /\ kind \in kinds
    /\ opts \in IF kind = "whisper"
                   THEN {MkOpts(tr, kw, kt, rq, fl) :
                            tr \in transcribeChoices, kw \in BOOLEAN, kt \in BOOLEAN,
                            rq \in requested, fl \in configured}
                   ELSE {DefaultOpts}
    /\ mu = "none"
    /\ isClosed = FALSE
    /\ file = IF kind \in FileKinds THEN NewFile ELSE NoFile
    /\ results = <<>>
    /\ resultsClosed = FALSE
    /\ conn = [open |-> kind \in WsKinds,
               frames |-> IF kind \in {"iflytek", "azure"}
                             THEN <<XunfeiRequest(0, 0, TRUE)>> ELSE <<>>]
    /\ lpc = IF kind \in WsKinds THEN "read" ELSE "done"
    /\ lres = NoResult
    /\ nMsgs = 0
    /\ panics = {}
    /\ call = [t \in Threads |-> IdleFrame]
    /\ gh = GhInit

\* The same, for a request without a language on a service started with the
\* --language flag at its default
StreamInit(kinds, transcribeChoices) == StreamWith(kinds, transcribeChoices, {""}, {"auto"})

Tracks == [pkts : UNION {[1..n -> {"good", "bad"}] : n \in 0..MaxPackets},
           end : {"eof", "err", "silent"}]

PumpInit(tracks, pc0) ==
    /\ track \in tracks
    /\ tpos = 0
    /\ rpc = IF pc0 = "select" THEN "top" ELSE "done"
    /\ rpkt = 0
    /\ audioStream = <<>>
    /\ audioClosed = FALSE
    /\ response = 0
    /\ errs = <<>>
    /\ timerArmed = (pc0 = "select")
    /\ timerC = FALSE
    /\ ctxDone = FALSE
    /\ ppc = pc0
    /\ pchunk = 0
    /\ ret = "none"
    /\ dcSent = <<>>
    /\ dcClosed = FALSE
    /\ ph = PhInit

ClientInit ==
    /\ nCalls = 0
    /\ consumed = [got |-> <<>>, disk |-> <<>>, done |-> FALSE]

\* CreatePeerConnection has returned and no callback has run yet
NewPeer ==
    /\ audioTrack = 0
    /\ dataChannel = FALSE
    /\ dataChan = 0
    /\ cb = [c \in Callbacks |-> [pc |-> "wait", codec |-> "none", store |-> FALSE]]
    /\ nPumps = 0

\* main is about to select the service
\* The server as main starts it: sessionStore is empty and no request has arrived
NoLogin ==
    /\ sessions = [t \in Tokens |-> [present |-> FALSE, expiresAt |-> 0]]
    /\ now = 0
    /\ req = [b \in Browsers |-> IdleRequest]
    /\ ah = [nIssued |-> 0, issuedAt |-> [t \in Tokens |-> 0], deleted |-> {}, nReq |-> 0]

Startup ==
    /\ NoLogin
    /\ env \in Envs
    /\ mpc = "start"
    /\ tried = <<>>
    /\ svc = "none"
    /\ smu = "none"
    /\ counter = 0
    /\ cs = [c \in Sessions |-> IdleSession]

\* main has selected the service of the backend `kind`, named by --vendor, and one
\* session has created n streams (none or one)
Served(n) ==
    /\ NoLogin
    /\ env = [flag |-> IF kind = "iflytek" THEN "xunfei" ELSE kind, google |-> "absent",
              azure |-> kind = "azure", baidu |-> kind = "baidu", xunfei |-> kind = "iflytek",
              whisperPath |-> IF kind = "whisper" THEN "ok" ELSE "unset", execFound |-> FALSE,
              whisperDir |-> TRUE, recorderDir |-> TRUE, getwd |-> TRUE]
    /\ mpc = "serve"
    /\ tried = <<Attempt(kind, TRUE)>>
    /\ svc = kind
    /\ smu = "none"
    /\ counter = IF kind \in FileKinds THEN n ELSE 0
    /\ cs = [c \in Sessions |->
               IF c = "s1"
                  THEN [IdleSession EXCEPT !.n = n, !.id = counter,
                                           !.got = IF kind \in FileKinds /\ n = 1
                                                      THEN <<[service |-> kind, id |-> 1, time |-> 1]>>
                                                      ELSE <<>>]
                  ELSE IdleSession]
\* the service that created the stream at hand
Serving == Served(1)

\* The callbacks of one opus track and of the data channel have run and one of
\* them has started handleAudioTrack
PumpStarted ==
    /\ audioTrack = 1
    /\ dataChannel = TRUE
    /\ dataChan = 1
    /\ cb = [c \in Callbacks |->
               [pc |-> IF c <= 1 THEN "done" ELSE "wait",
                codec |-> IF c = 1 THEN "opus" ELSE "none", store |-> FALSE]]
    /\ nPumps = 1

FileStep(t) ==
    \/ WLock(t) \/ WCheck(t) \/ WAppend(t)
    \/ CLock(t) \/ CCheck(t) \/ CStat(t) \/ CPatch(t) \/ CFileClose(t) \/ CPost(t) \/ CExec(t) \/ CRecog(t)
WsStep(t) ==
    \/ WsWrite(t) \/ WsCloseEnd(t) \/ WsCloseConn(t) \/ WsCloseChan(t)
Listener == LRead \/ LSend
NoPump == PumpInit({[pkts |-> <<>>, end |-> "silent"]}, "absent")

\* The program: handleAudioTrack after newDecoder and CreateStream succeeded, with
\* the stream of whichever backend selectVendor chose
Init ==
    StreamInit(Kinds, {TRUE}) /\ ClientInit /\ PumpInit(Tracks, "select") /\ PumpStarted /\ Serving
Next ==
    \/ FileStep("pump") \/ WsStep("pump")
    \/ Listener
    \/ RTop \/ RRead \/ RSend \/ RWait \/ RExit
    \/ TimerFire
    \/ PumpSelect \/ PumpWriteRet \/ PumpDefer \/ PumpCloseRet \/ PumpDrain
Spec == Init /\ [][Next]_vars

\* One Whisper or Recorder stream used through the Stream interface by two
\* goroutines and a consumer of Results()
InitFile == StreamInit(FileKinds, BOOLEAN) /\ ClientInit /\ NoPump /\ NewPeer /\ Serving
NextFile ==
    \/ \E t \in Clients : FileStep(t) \/ ClientWrite(t) \/ ClientClose(t)
    \/ Consume
SpecFile == InitFile /\ [][NextFile]_vars

\* One Whisper stream, created with any language option on a service configured
\* with any language, written and closed by one goroutine
Langs == {"", "auto", "en"}
InitLang == StreamWith({"whisper"}, {TRUE}, Langs, Langs) /\ ClientInit /\ NoPump /\ NewPeer /\ Serving
NextLang ==
    \/ FileStep("c1") \/ ClientWrite("c1") \/ ClientClose("c1")
    \/ Consume
SpecLang == InitLang /\ [][NextLang]_vars

\* The HTTP server with its session store: two browsers sending requests to any
\* route, and the clock
InitAuth == StreamInit({"recorder"}, {TRUE}) /\ ClientInit /\ NoPump /\ NewPeer /\ Served(0)
NextAuth ==
    \/ \E b \in Browsers :
          Request(b) \/ loginHandler(b) \/ logoutHandler(b) \/ authMiddleware(b) \/ ServeHTTP(b)
    \/ Tick
SpecAuth == InitAuth /\ [][NextAuth]_vars

\* One IflyTek, Azure or Baidu stream used through the Stream interface by two
\* goroutines and a consumer of Results(), with its listener
InitWs == StreamInit(WsKinds, {TRUE}) /\ ClientInit /\ NoPump /\ NewPeer /\ Serving
NextWs ==
    \/ \E t \in Clients : WsStep(t) \/ ClientWrite(t) \/ ClientClose(t)
    \/ Listener
    \/ Consume
SpecWs == InitWs /\ [][NextWs]_vars

\* One peer connection from CreatePeerConnection on: its OnTrack and OnDataChannel
\* callbacks, up to the start of handleAudioTrack
InitPeer == StreamInit({"recorder"}, {TRUE}) /\ ClientInit /\ NoPump /\ NewPeer /\ Serving
NextPeer ==
    \/ \E i \in Callbacks : OnTrack(i)
    \/ OnDataChannel
    \/ \E c \in Callbacks : SetShared(c) \/ Flush(c) \/ CheckBoth(c) \/ startAudioProcessing(c)
SpecPeer == InitPeer /\ [][NextPeer]_vars

\* main from its start, and then one session that asks the selected Whisper or
\* Recorder service for streams
InitStart == StreamInit({"recorder"}, {TRUE}) /\ ClientInit /\ NoPump /\ NewPeer /\ Startup
SessionStep(c) == CreateStream(c) \/ CsLock(c) \/ CsIncr(c) \/ CsRead(c) \/ CsCreate(c)
NextStart ==
    \/ Main
    \/ SessionStep("s1")
SpecStart == InitStart /\ [][NextStart]_vars

\* A Whisper or Recorder service that main selected, asked for streams by
\* concurrent sessions
InitService == StreamInit(FileKinds, {TRUE}) /\ ClientInit /\ NoPump /\ NewPeer /\ Served(0)
NextService == \E c \in Sessions : SessionStep(c)
SpecService == InitService /\ [][NextService]_vars

\* ------------------------------------------------------------------ claims
\* ids of the packets of the track that decode, in track order
RECURSIVE GoodFrom(_)
GoodFrom(i) ==
    IF i > Len(Pkts) THEN <<>>
    ELSE (IF Pkts[i] = "good" THEN <<i>> ELSE <<>>) \o GoodFrom(i + 1)
GoodIds == GoodFrom(1)
Relayed == {dcSent[i] : i \in 1..Len(dcSent)}

\* C1: whenever the pump loop has terminated and handleAudioTrack has returned (in a
\* run where no timer tick came early), the pump has called Close exactly once, the
\* result channel is closed and holds nothing that was not relayed, and the data
\* channel is closed; the data channel is closed only at the end of that sequence.
C1_CloseDrainThenCloseDc ==
    ~ph.earlyTimeout =>
        /\ ppc = "done" => (ph.nClose = 1 /\ resultsClosed /\ results = <<>> /\ dcClosed)
        /\ dcClosed => (ppc = "done" /\ resultsClosed /\ results = <<>>)

\* C2: for a track that delivers its packets and then ends or falls silent, with
\* exactly one packet that fails to decode, a session that ended with no Write error
\* and no premature timer tick has written every other packet, in track order, and
\* nothing for the failing one.
C2_DecodeFailureSkipsOnePacket ==
    (/\ ppc = "done"
     /\ track.end \in {"eof", "silent"}
     /\ Cardinality({i \in 1..Len(Pkts) : Pkts[i] = "bad"}) = 1
     /\ ~ph.earlyTimeout
     /\ ~ph.writeFailed)
    => ph.written = GoodIds

\* C3: a Write on a Whisper or Recorder stream that began after a Close had returned
\* never reaches the file append, has done no file I/O, and returns 0 bytes with the
\* "stream is closed" error.
C3_WriteAfterCloseRejected ==
    \A t \in Threads :
        (Frame(t).op = "Write" /\ Frame(t).afterClose)
        => /\ Frame(t).pc \in {"w_lock", "w_check", "ret"}
           /\ ~Frame(t).io
           /\ Frame(t).pc = "ret" => (Frame(t).err = "closed" /\ Frame(t).n = Bytes(0, 0))
C3_Witness ==
    \E t \in Threads :
        /\ Frame(t).op = "Write" /\ Frame(t).afterClose
        /\ Frame(t).pc = "ret" /\ Frame(t).err = "closed"
        /\ file.exists /\ file.audio # Bytes(0, 0)

\* C4: on a Whisper or Recorder stream at most one Close call finalizes; every other
\* Close call stops at the isClosed test and returns nil, so the recognizer runs at
\* most once, at most one Result is pushed and the result channel is closed at most
\* once, without a panic.
C4_LaterCloseIsNoop ==
    /\ gh.nFinal <= 1 /\ gh.nRecog <= 1 /\ gh.nPush <= 1 /\ gh.nChanClose <= 1
    /\ panics = {}
    /\ \A t \in Threads :
          (Frame(t).op = "Close" /\ ~Frame(t).won)
          => /\ Frame(t).pc \in {"c_lock", "c_check", "ret"}
             /\ Frame(t).pc = "ret" => Frame(t).err = "nil"
C4_Witness ==
    /\ gh.nNoop >= 1 /\ gh.nFinal = 1 /\ gh.nChanClose = 1
    /\ \E t \in Threads : Frame(t).op = "Close" /\ ~Frame(t).won /\ Frame(t).pc = "ret"

\* C5: once a Close call on a Whisper or Recorder stream has returned, whatever it
\* returned, the result channel has been closed, exactly once, and every Result of the
\* stream was pushed before that.
C5_CloseReturnedMeansChannelClosed ==
    gh.closeReturned => (resultsClosed /\ gh.nChanClose = 1 /\ panics = {})

C7_ListenerNeverSendsAfterClose ==
    ~ph.earlyTimeout =>
        /\ "send on closed channel" \notin panics
        /\ (gh.closeReturned /\ lpc = "send") => (resultsClosed \/ kind # "iflytek")

\* C8: with a streaming backend, when handleAudioTrack has returned (in a run where
\* no timer tick came early), every Result the listener decoded from a message it
\* read before Close began has been relayed over the data channel.
C8_EarlyResultsAreRelayed ==
    (ppc = "done" /\ kind \in WsKinds /\ ~ph.earlyTimeout) => gh.preResults \subseteq Relayed

\* C9: on an IflyTek, Azure or Baidu stream no Close call panics, every Close call
\* that returns returns nil, and the result channel and the connection are each
\* closed at most once, however many Close calls are made.
C9_SecondCloseIsNoop ==
    /\ "close of closed channel" \notin panics
    /\ gh.nChanClose <= 1
    /\ gh.nConnClose <= 1
    /\ \A t \in Threads : Frame(t).op = "Close" => Frame(t).pc # "panicked"

\* C10: a Write on an IflyTek, Azure or Baidu stream that began after a Close had
\* returned hands no frame to the connection and returns the closed error.
C10_WsWriteAfterCloseRejected ==
    \A t \in Threads :
        (Frame(t).op = "Write" /\ Frame(t).afterClose)
        => /\ ~Frame(t).io
           /\ Frame(t).pc = "ret" => Frame(t).err = "closed"

\* C11: a pump whose track delivers no packet and stays silent never calls Write on
\* the stream; when its loop ends (only the idle timer can end it) handleAudioTrack
\* returns nil, and by the time it has returned it has called Close once and that
\* Close has returned.
C11_IdleTimeoutEndsSessionCleanly ==
    (Pkts = <<>> /\ track.end = "silent") =>
        /\ ppc # "write" /\ Frame("pump").op # "Write"
        /\ ph.written = <<>> /\ ~ph.writeFailed
        /\ ppc \in {"select", "defer"} => ph.nClose = 0
        /\ ppc \in {"defer", "closing", "drain", "done"} => ret = "nil"
        /\ ppc = "done" => (ph.nClose = 1 /\ gh.closeReturned /\ Frame("pump").op = "Close")
C11_Witness ==
    /\ Pkts = <<>> /\ track.end = "silent"
    /\ ppc = "done" /\ ret = "nil" /\ ~ph.earlyTimeout
    /\ ph.nClose = 1 /\ gh.closeReturned

\* C12: when ReadRTP has failed with an error other than io.EOF (the reader has put
\* it on errs) in a session with no Write error and no premature timer tick, the
\* value handleAudioTrack returns is that read error.
C12_ReadErrorIsReported ==
    (/\ ppc = "done"
     /\ errs # <<>> \/ ret = "read error"
     /\ ~ph.earlyTimeout
     /\ ~ph.writeFailed)
    => ret = "read error"

\* C13: once a Write has returned an error to the pump, the pump is never again in or
\* before a Write call; and when handleAudioTrack has returned, it returns the Write
\* error, after one Close call, with the result channel closed and emptied and the
\* data channel closed.
C13_WriteErrorIsFatalAndStillDrains ==
    ph.writeFailed =>
        /\ ppc \in {"defer", "closing", "drain", "done"}
        /\ ret = "write error"
        /\ Frame("pump").op # "Write"
        /\ ppc = "done" => (ph.nClose = 1 /\ resultsClosed /\ results = <<>> /\ dcClosed)
\* the part of C13 that does not depend on what Close returns
C13_WriteErrorIsFatal ==
    ph.writeFailed =>
        /\ ppc \in {"defer", "closing", "drain", "done"}
        /\ ret = "write error"
        /\ Frame("pump").op # "Write"
        /\ ppc = "done" => ph.nClose = 1

\* C14: on one peer connection no handleAudioTrack is started before an opus track
\* and the data channel have both arrived, and once their callbacks have both run to
\* the end, one has been started.
TrackArrived == \E i \in Callbacks : i # 0 /\ cb[i].codec = "opus"
DcArrived == cb[0].pc # "wait"
AllCallbacksDone == \A c \in Callbacks : cb[c].pc \in {"wait", "done"} /\ ~cb[c].store
C14_StartsWhenBothArrived ==
    /\ nPumps > 0 => (TrackArrived /\ DcArrived)
    /\ (TrackArrived /\ DcArrived /\ AllCallbacksDone) => nPumps >= 1
\* the first half of C14 alone
C14_NeverStartsEarly == nPumps > 0 => (TrackArrived /\ DcArrived)

\* C15: on a peer connection that has received one opus track and the data channel,
\* handleAudioTrack is started at most once, so at most one stream is created for
\* the track.
C15_OnePumpPerTrack ==
    Cardinality({i \in Callbacks : i # 0 /\ cb[i].codec = "opus"}) <= 1 => nPumps <= 1

\* C16: the messages the pump has sent over the data channel are Results in the order
\* in which the backend pushed them (Results are numbered in push order), each sent at
\* most once, and none that was never pushed.
C16_SentInPushOrderAtMostOnce ==
    /\ \A i, j \in 1..Len(dcSent) : i < j => dcSent[i] < dcSent[j]
    /\ \A i \in 1..Len(dcSent) :
          dcSent[i] >= 1 /\ dcSent[i] <= (IF kind \in WsKinds THEN nMsgs ELSE gh.nPush)
C16_Witness == Len(dcSent) = 2 /\ dcSent[1] = 1 /\ dcSent[2] = 2 /\ ppc = "done"

\* the Results the stream has yielded so far: those received and those still buffered
Emitted == consumed.got \o results
\* some Close call has returned an error
CloseFailed == \E t \in Clients : Frame(t).op = "Close" /\ Frame(t).pc = "ret" /\ Frame(t).err # "nil"

\* C17: on a Whisper stream with transcription and WAV retention on, once the
\* recognizer has succeeded during Close after Write calls that returned n > 0 bytes in
\* total, Close has returned nil, the result channel has yielded exactly one Result,
\* with the recognizer's text and final = true, and is closed, and the WAV file is on
\* disk with 44 + n bytes.
C17_SuccessYieldsOneResultAndWav ==
    (kind = "whisper" /\ opts.transcribe /\ opts.keepWav /\ gh.recogOut = "ok") =>
        /\ gh.nBytes # Bytes(0, 0)
        /\ gh.closeReturned /\ ~CloseFailed /\ panics = {}
        /\ Len(Emitted) = 1
        /\ Emitted[1].text = "transcript" /\ Emitted[1].final
        /\ resultsClosed
        /\ file.exists /\ FileLen = Plus(Bytes(0, WavHeaderSize), gh.nBytes)
C17_Witness ==
    /\ kind = "whisper" /\ opts.transcribe /\ opts.keepWav /\ gh.recogOut = "ok"
    /\ gh.nBytes = Bytes(0, 2) /\ consumed.done /\ Len(consumed.got) = 1
    /\ file.exists

\* C18: on a Whisper stream with transcription on and audio written, once the
\* recognizer has failed during Close (non-zero exit, unreadable or empty output),
\* Close has returned nil, exactly one Result has been pushed, carrying the error
\* message as text with confidence 0 and final = true, and the result channel is
\* closed.
C18_RecognizerFailureIsReportedInAResult ==
    (kind = "whisper" /\ gh.recogOut \in {"exec", "read", "empty"}) =>
        /\ opts.transcribe /\ gh.nBytes # Bytes(0, 0)
        /\ gh.closeReturned /\ ~CloseFailed /\ panics = {}
        /\ gh.nPush = 1 /\ Len(Emitted) = 1
        /\ Emitted[1].text = "transcription error" /\ Emitted[1].conf = 0 /\ Emitted[1].final
        /\ resultsClosed
C18_Witness ==
    /\ kind = "whisper" /\ gh.recogOut = "empty" /\ gh.nBytes = Bytes(0, 1)
    /\ consumed.done /\ Len(consumed.got) = 1 /\ consumed.got[1].conf = 0

\* some Close call went past the isClosed check and has returned
CloseWonReturned ==
    \E t \in Clients : Frame(t).op = "Close" /\ Frame(t).won /\ Frame(t).pc = "ret"
\* no Close call has returned an error from a failed file operation
NoFileFault ==
    \A t \in Clients :
        (Frame(t).op = "Close" /\ Frame(t).pc = "ret") => Frame(t).err \in {"nil", "too small"}

\* C19: a Whisper stream closed with no audio byte written never invokes the
\* recognizer and emits no Result; its Close returns nil, and once the Close call
\* that finalizes has returned, the WAV file is removed from disk and the result
\* channel is closed.
C19_EmptyStreamIsDiscarded ==
    (kind = "whisper" /\ gh.nBytes = Bytes(0, 0)) =>
        /\ gh.nRecog = 0 /\ gh.nPush = 0 /\ Emitted = <<>> /\ panics = {}
        /\ ~CloseFailed
        /\ CloseWonReturned => (~file.exists /\ resultsClosed)
\* What holds of such a stream in every case: no recognizer run, no Result, and the
\* file removed once Close has returned; where no file operation of Close fails,
\* Close returns nil and the channel is closed.
C19_EmptyStreamDiscardedUnlessFault ==
    (kind = "whisper" /\ gh.nBytes = Bytes(0, 0)) =>
        /\ gh.nRecog = 0 /\ gh.nPush = 0 /\ Emitted = <<>> /\ panics = {}
        /\ CloseWonReturned => ~file.exists
        /\ (CloseWonReturned /\ NoFileFault) => (~CloseFailed /\ resultsClosed)

\* C20: a Whisper stream created with transcribe = false never invokes the
\* recognizer, and once it has been closed after n > 0 audio bytes, with no file
\* operation failing in Close, it has emitted exactly one Result, final and with the
\* recording-only text, whose audio file exists on disk, whatever keepWav is.
C20_RecordOnlyKeepsAudio ==
    (kind = "whisper" /\ ~opts.transcribe) =>
        /\ gh.nRecog = 0
        /\ (gh.nBytes # Bytes(0, 0) /\ CloseWonReturned /\ NoFileFault) =>
              /\ Len(Emitted) = 1
              /\ Emitted[1].final /\ Emitted[1].text = "recording saved"
              /\ Emitted[1].audioFile /\ file.exists
\* The same for streams whose file size fits 32 bits
C20_RecordOnlyKeepsAudioBelow4GiB ==
    (kind = "whisper" /\ ~opts.transcribe) =>
        /\ gh.nRecog = 0
        /\ (gh.nBytes # Bytes(0, 0) /\ gh.nBytes.hi = 0 /\ CloseWonReturned /\ NoFileFault) =>
              /\ Len(Emitted) = 1
              /\ Emitted[1].final /\ Emitted[1].text = "recording saved"
              /\ Emitted[1].audioFile /\ file.exists

\* some Close call went past the isClosed check and has returned nil
CloseSucceeded ==
    \E t \in Clients : Frame(t).op = "Close" /\ Frame(t).won /\ Frame(t).pc = "ret"
                          /\ Frame(t).err = "nil"

\* C21: once Close of a Whisper or Recorder stream has succeeded and left its file, the header's
\* data-size field equals the total length of the chunks written, its chunk-size
\* field equals the file size minus 8, Close has overwritten only those two fields
\* (offsets 4 and 40), and the audio bytes are those the Write calls appended.
C21_HeaderRoundTrip ==
    (kind \in FileKinds /\ CloseSucceeded /\ file.exists) =>
        /\ Bytes(0, file.dataSize) = gh.nBytes
        /\ Bytes(0, file.chunkSize) = Plus(FileLen, Bytes(0, 0 - 8))
        /\ file.patched = {4, 40}
        /\ file.audio = gh.nBytes /\ ~gh.lateAppend
\* The same for streams whose file size fits 32 bits
C21_HeaderRoundTripBelow4GiB ==
    (kind \in FileKinds /\ CloseSucceeded /\ file.exists /\ gh.nBytes.hi = 0) =>
        /\ Bytes(0, file.dataSize) = gh.nBytes
        /\ Bytes(0, file.chunkSize) = Plus(FileLen, Bytes(0, 0 - 8))
        /\ file.patched = {4, 40}
        /\ file.audio = gh.nBytes /\ ~gh.lateAppend

\* no cloud backend has valid credentials, and there is no Whisper executable
NothingConfigured(e) ==
    /\ e.google # "valid" /\ ~e.azure /\ ~e.baidu /\ ~e.xunfei
    /\ e.whisperPath # "ok" /\ ~e.execFound
\* the directory operations of startup succeed, and --vendor names no unknown vendor
StartupSound(e) == e.recorderDir /\ e.getwd /\ e.flag # "other"
\* the CreateStream calls of session c that have returned, and those that failed
Returned(c) == cs[c].n - (IF cs[c].pc = "idle" THEN 0 ELSE 1)

\* C22: with no valid credentials for any cloud backend and no Whisper executable,
\* once main has run selectVendor the process is serving with the Recorder, and
\* every CreateStream call on it that has returned without a file fault has
\* produced a stream.
C22_FallbackToRecorder ==
    (NothingConfigured(env) /\ StartupSound(env) /\ mpc # "start") =>
        /\ mpc = "serve" /\ svc = "recorder"
        /\ ~cs["s1"].failed => Len(cs["s1"].got) = Returned("s1")
\* The same where no credentials are set at all and --vendor names no cloud backend
C22_FallbackWithNothingSet ==
    (NothingConfigured(env) /\ StartupSound(env) /\ mpc # "start"
        /\ env.google = "absent" /\ env.flag \in {"unset", "", "whisper", "recorder"}) =>
        /\ mpc = "serve" /\ svc = "recorder"
        /\ ~cs["s1"].failed => Len(cs["s1"].got) = Returned("s1")

\* what automatic selection requires of backend b
Prerequisites(e, b) ==
    CASE b \in {"google", "azure", "baidu", "iflytek"} -> CredsPresent(e, b)
      [] b = "whisper" -> NewWhisperTranscriber(e)
      [] OTHER -> TRUE

C24_FailureTriesNextBackend ==
    mpc # "start" =>
        /\ \A i \in 1..Len(tried) :
              (~tried[i].ok /\ tried[i].b # "recorder") =>
                  /\ i < Len(tried)
                  /\ \E j \in 1..(Len(Backends) - 1) :
                        Backends[j] = tried[i].b /\ Backends[j + 1] = tried[i + 1].b
        /\ (mpc = "fatal" /\ tried # <<>>) => tried[Len(tried)].b = "recorder"
\* What holds: a failure to create the Whisper service is followed by the attempt to
\* create the Recorder
C24_WhisperFailureTriesRecorder ==
    mpc # "start" =>
        \A i \in 1..Len(tried) :
            (~tried[i].ok /\ tried[i].b = "whisper") =>
                (i < Len(tried) /\ tried[i + 1].b = "recorder")

\* the streams the sessions have been given, as <<session, position>>
StreamsMade == {x \in Sessions \X (1..MaxStreams) : x[2] <= Len(cs[x[1]].got)}
\* the increments of the counter that session c has performed
Increments(c) == cs[c].n - (IF cs[c].pc \in {"lock", "incr"} THEN 1 ELSE 0)

\* C25: the streams created by one Whisper or Recorder service, concurrently or
\* not, have pairwise distinct counter values and pairwise distinct file paths; a
\* session reads or increments the counter only while it holds the service mutex;
\* and the counter is the number of increments made so far, so it never decreases.
C25_DistinctCountersAndPaths ==
    /\ \A x, y \in StreamsMade :
          x # y => /\ cs[x[1]].got[x[2]].id # cs[y[1]].got[y[2]].id
                   /\ cs[x[1]].got[x[2]] # cs[y[1]].got[y[2]]
    /\ \A c \in Sessions : cs[c].pc \in {"incr", "read"} => smu = c
    /\ counter = Increments("s1") + Increments("s2")
    /\ \A c \in Sessions : \A i \in 1..Len(cs[c].got) :
          cs[c].got[i].id >= 1 /\ cs[c].got[i].id <= counter
C25_Witness ==
    /\ Len(cs["s1"].got) = 2 /\ Len(cs["s2"].got) = 1
    /\ cs["s1"].got[1].time = cs["s2"].got[1].time
    /\ cs["s1"].got[1].id = 2 /\ cs["s2"].got[1].id = 1 /\ cs["s1"].got[2].id = 3

\* C26: a Close call of a Whisper or Recorder stream in which Stat, a seek or write
\* of the header fields, or the file's Close failed has returned an error, with the
\* file handle closed and the file removed from disk; a Close call that finalized
\* and returned nil had none of these steps fail: both header fields are written and
\* the handle is closed.
C26_FailedFinalizationRemovesFile ==
    \A t \in Clients :
        (kind \in FileKinds /\ Frame(t).op = "Close" /\ Frame(t).won /\ Frame(t).pc = "ret") =>
            /\ Frame(t).err \in {"stat", "header", "close"} => (~file.open /\ ~file.exists)
            /\ Frame(t).err = "nil" => (~file.open /\ file.patched = {4, 40})
C26_Witness ==
    \E t \in Clients :
        /\ kind \in FileKinds /\ Frame(t).op = "Close" /\ Frame(t).won /\ Frame(t).pc = "ret"
        /\ Frame(t).err = "close" /\ gh.nBytes = Bytes(0, 2)
        /\ ~file.open /\ ~file.exists /\ ~resultsClosed

\* The reader is inside track.ReadRTP() on a track that delivers nothing more: the
\* call never returns, and closing ctx.Done() does not interrupt it
ReaderStuckInRead == rpc = "read" /\ tpos = Len(Pkts) /\ track.end = "silent"

\* C27: once the pump has taken the idle-timeout case it is on its way through
\* stream closure (it never returns to the select loop or waits for the reader),
\* the reader never goes on to a new ReadRTP with the cancellation signalled, and
\* when handleAudioTrack has returned the reader is not left inside a ReadRTP that
\* never returns.
C27_TimeoutLeavesNoTaskBlocked ==
    ph.timedOut =>
        /\ ppc \in {"defer", "closing", "drain", "done"}
        /\ ~ph.lateRead
        /\ ppc = "done" => ~ReaderStuckInRead

\* C27, the part that holds: after the idle timeout the pump goes straight to stream
\* closure and the reader starts no ReadRTP once the cancellation is signalled.
C27_TimeoutGoesStraightToClosure ==
    /\ ph.timedOut => (ppc \in {"defer", "closing", "drain", "done"} /\ ctxDone)
    /\ ~ph.lateRead

\* C28: on a Whisper stream, whatever Write and Close calls are made and however
\* they interleave, the external recognizer is started at most once; when it has
\* been started both header fields are patched and the file handle is closed; and
\* the Close call that started it has not returned (or panicked) while the
\* invocation is still running.
C28_RecognizerOnceAfterFinalization ==
    kind = "whisper" =>
        /\ gh.nExec <= 1 /\ gh.nRecog <= gh.nExec
        /\ gh.nExec = 1 => (file.patched = {4, 40} /\ ~file.open)
        /\ \A t \in Threads :
              (Frame(t).op = "Close" /\ Frame(t).won /\ Frame(t).pc \in {"ret", "panicked"})
              => gh.nRecog = gh.nExec
        /\ gh.nExec > gh.nRecog => \E t \in Threads : Frame(t).op = "Close" /\ Frame(t).pc = "c_run"
C28_Witness ==
    /\ kind = "whisper" /\ gh.nExec = 1 /\ gh.nRecog = 1 /\ gh.nBytes = Bytes(0, 2)
    /\ \E t, u \in Clients :
          /\ Frame(t).op = "Close" /\ Frame(t).won /\ Frame(t).pc = "ret"
          /\ Frame(u).op = "Close" /\ ~Frame(u).won /\ Frame(u).pc = "ret"

\* The track ends with io.EOF after packets that all decode, no Write has failed and
\* the idle timer has not fired
CleanRun ==
    /\ track.end = "eof"
    /\ \A i \in 1..Len(Pkts) : Pkts[i] = "good"
    /\ ~ph.writeFailed
    /\ ~timerC /\ ~ph.timedOut

\* C29: in a run whose track ends with io.EOF after N packets that all decode, with
\* no failed Write and no timer tick, the pump's Write calls are for packets 1, 2, ...
\* in that order, one call per packet; once the loop has ended all N have been
\* written and handleAudioTrack's return value is nil; and no Write is called once
\* Close has been called.
C29_CleanEndWritesEveryPacketInOrder ==
    CleanRun =>
        /\ Len(ph.written) <= Len(Pkts)
        /\ \A i \in 1..Len(ph.written) : ph.written[i] = i
        /\ ppc = "write" => (pchunk = Len(ph.written) + 1 /\ ph.nClose = 0)
        /\ ppc = "select" => ph.nClose = 0
        /\ ppc \in {"defer", "closing", "drain", "done"} =>
              (Len(ph.written) = Len(Pkts) /\ ret = "nil")
C29_Witness ==
    /\ CleanRun /\ Len(Pkts) = 2
    /\ ppc = "done" /\ ret = "nil" /\ ph.written = <<1, 2>> /\ ph.nClose = 1

\* The chunks carried by the audio messages of fs, in the order of the messages
RECURSIVE AudioOf(_)
AudioOf(fs) ==
    IF fs = <<>> THEN <<>>
    ELSE (IF Head(fs).status = 1 THEN <<Head(fs).audio>> ELSE <<>>) \o AudioOf(Tail(fs))
\* The chunks for which the pump has called Write and the call has reached WriteMessage
WriteCalls ==
    ph.written \o (IF ppc = "write" /\ Frame("pump").pc = "ret" THEN <<pchunk>> ELSE <<>>)
SentFrames == SelectSeq(conn.frames, LAMBDA f : f.sent)

\* C30: on the connection of an IflyTek stream driven by the pump, the messages
\* handed to the connection are, in order: the one configuration message (status 0)
\* sent by CreateStream, then one audio message (status 1) for each Write call, in
\* the order of the calls and carrying that call's chunk, then, once Close has been
\* called, one end-of-audio message (status 2), which is the last message; the
\* messages that went out are a subsequence of these with the same audio order.
C30_IflyTekFrameOrder ==
    kind = "iflytek" =>
        LET fs == conn.frames
            n == Len(fs)
            ends == {i \in 1..n : fs[i].status = 2}
        IN  /\ n >= 1 /\ fs[1].status = 0 /\ fs[1].sent
            /\ \A i \in 2..n : fs[i].status \in {1, 2}
            /\ \A i \in ends : i = n
            /\ ~ph.writeFailed => AudioOf(fs) = WriteCalls
            /\ ph.writeFailed => Len(AudioOf(fs)) = Len(ph.written) + 1
            /\ \A i \in 1..Len(ph.written) : AudioOf(fs)[i] = ph.written[i]
            /\ AudioOf(SentFrames) \in {ph.written, WriteCalls}
            /\ ph.nClose = 0 => ends = {}
            /\ ppc \in {"drain", "done"} => ends = {n}
C30_Witness ==
    /\ kind = "iflytek" /\ ppc = "done"
    /\ conn.frames = <<XunfeiRequest(0, 0, TRUE), XunfeiRequest(1, 1, TRUE),
                       XunfeiRequest(1, 2, TRUE), XunfeiRequest(2, 0, TRUE)>>
    /\ ph.written = <<1, 2>>

\* C31: when the recognizer of a Whisper stream has been started, its arguments
\* hold "--language" followed by the effective language if that language is
\* neither "" nor "auto", and no language argument otherwise; the effective
\* language is the language of the request when that is not empty, and otherwise
\* the language the service was configured with, "auto" standing in for an empty one.
C31_LanguageArgument ==
    (kind = "whisper" /\ gh.nExec > 0) =>
        LET default == IF opts.flagLanguage = "" THEN "auto" ELSE opts.flagLanguage
            effective == IF opts.reqLanguage # "" THEN opts.reqLanguage ELSE default
        IN  /\ effective \notin {"", "auto"} => gh.args = <<"--language", effective>>
            /\ effective \in {"", "auto"} => gh.args = <<>>
C31_Witness ==
    /\ kind = "whisper" /\ gh.nRecog = 1
    /\ opts.reqLanguage = "en" /\ opts.flagLanguage = "" /\ gh.args = <<"--language", "en">>
C31_WitnessDefault ==
    /\ kind = "whisper" /\ gh.nRecog = 1
    /\ opts.reqLanguage = "" /\ opts.flagLanguage = "" /\ gh.args = <<>>

\* C32: a Recorder stream to whose file no audio byte was ever appended emits no
\* Result, and once the Close call that finalizes it has returned, its file is
\* removed from disk.
C32_EmptyRecordingIsDiscarded ==
    (kind = "recorder" /\ file.audio = Bytes(0, 0) /\ gh.nBytes = Bytes(0, 0)) =>
        /\ Emitted = <<>>
        /\ CloseWonReturned => ~file.exists

\* C33: once Close of a Whisper stream with transcription on has returned after
\* Write calls that returned n > 0 bytes in total, with no file operation failing in
\* Close, the WAV file is on disk exactly if keepWav is set, and if the recognizer
\* succeeded the transcript file is on disk exactly if keepTxt is set.
C33_RetentionFollowsFlags ==
    (/\ kind = "whisper" /\ opts.transcribe /\ gh.nBytes # Bytes(0, 0)
     /\ CloseWonReturned /\ NoFileFault)
    => /\ file.exists <=> opts.keepWav
       /\ gh.recogOut = "ok" => (file.txt <=> opts.keepTxt)
\* The same for streams whose file size fits 32 bits
C33_RetentionFollowsFlagsBelow4GiB ==
    (/\ kind = "whisper" /\ opts.transcribe /\ gh.nBytes # Bytes(0, 0) /\ gh.nBytes.hi = 0
     /\ CloseWonReturned /\ NoFileFault)
    => /\ file.exists <=> opts.keepWav
       /\ gh.recogOut = "ok" => (file.txt <=> opts.keepTxt)

\* C34: the queue between the reader and the pump loop never holds more than one
\* packet; whenever the reader is back at the top of its loop or in ReadRTP after
\* packet k, the loop has taken packet k from the queue and packet k decoded; and
\* the chunks reach Write in the order their packets were read.
C34_OnePacketOutstanding ==
    /\ Len(audioStream) <= 1
    /\ (rpc \in {"top", "read"} /\ tpos > 0) =>
          /\ audioStream = <<>>
          /\ Pkts[tpos] = "good"
          /\ pchunk = tpos \/ ph.writeFailed \/ (ph.written # <<>> /\ ph.written[Len(ph.written)] = tpos)
    /\ \A i, j \in 1..Len(ph.written) : i < j => ph.written[i] < ph.written[j]
    /\ ppc = "write" => \A i \in 1..Len(ph.written) : ph.written[i] < pchunk
    /\ \A i \in 1..Len(audioStream) : audioStream[i] = tpos /\ pchunk < tpos
C34_Witness ==
    /\ audioStream = <<2>> /\ rpc = "wait"
    /\ ppc = "write" /\ pchunk = 1 /\ Pkts = <<"good", "good">>

\* C35: when handleAudioTrack has returned, whichever way its loop ended and
\* whatever Stream.Close returned, the data channel has been closed.
C35_DataChannelClosedOnReturn == ppc = "done" => dcClosed

\* C36: for every Result a consumer has received from a Whisper stream, if the
\* Result carries an audio file path the WAV file was on disk when it was received,
\* and if it carries a text file path the transcript file was on disk then.
C36_NamedFilesExistWhenRead ==
    kind = "whisper" =>
        \A i \in 1..Len(consumed.got) :
            /\ consumed.got[i].audioFile => consumed.disk[i].wav
            /\ consumed.got[i].textFile => consumed.disk[i].txt
\* What holds: with both retention flags set, every such Result names files that
\* are on disk when it is received.
C36_NamedFilesExistWhenKept ==
    (kind = "whisper" /\ opts.keepWav /\ opts.keepTxt) =>
        \A i \in 1..Len(consumed.got) :
            /\ consumed.got[i].audioFile => consumed.disk[i].wav
            /\ consumed.got[i].textFile => consumed.disk[i].txt

\* C37: a request to a protected route is at, or past, the route's handler logic
\* only if the token it carries was, when the request was checked, issued by
\* createSession, not deleted and not expired; and a request that arrived after its
\* token was deleted or had expired never reaches the handler logic.
C37_OnlyLiveSessionsReachHandlers ==
    \A b \in Browsers :
        req[b].route \in Protected =>
            /\ (req[b].pc = "handler" \/ req[b].served) => req[b].good
            /\ req[b].stale => (req[b].pc # "handler" /\ ~req[b].served)
            /\ req[b].cookie \in {NoCookie, Forged} => (req[b].pc # "handler" /\ ~req[b].served)
C37_Witness ==
    /\ req["b1"].route = "/files" /\ req["b1"].served /\ req["b1"].cookie = 1
    /\ req["b2"].route = "/delete/" /\ req["b2"].cookie = 1 /\ req["b2"].stale
    /\ req["b2"].pc = "rejected" /\ 1 \in ah.deleted /\ now = 0
C37_WitnessExpired ==
    /\ req["b1"].route = "/session" /\ req["b1"].served /\ req["b1"].cookie = 1
    /\ req["b2"].route = "/recordings/" /\ req["b2"].cookie = 1 /\ req["b2"].stale
    /\ req["b2"].pc = "rejected" /\ ah.deleted = {}

\* Close has returned from its `fileSize < 44` test, which removes the file
TooSmallFired ==
    \E t \in Clients : Frame(t).op = "Close" /\ Frame(t).pc = "ret" /\ Frame(t).err = "too small"
\* Close of a Whisper stream has returned from its `fileSize == 44` test, which
\* removes the file and closes the channel with no Result pushed
EmptyFired == kind = "whisper" /\ CloseSucceeded /\ gh.nPush = 0

\* C38: when Close of a Whisper or Recorder stream has taken its too-small or its
\* empty-file branch, which discard the file, no audio byte was ever appended to
\* the file, whatever the size of the file.
C38_ChecksFireOnlyWithoutAudio ==
    (kind \in FileKinds /\ (TooSmallFired \/ EmptyFired)) => file.audio = Bytes(0, 0)
\* The same for streams whose file size fits 32 bits
C38_ChecksFireOnlyWithoutAudioBelow4GiB ==
    (kind \in FileKinds /\ file.audio.hi = 0 /\ (TooSmallFired \/ EmptyFired))
    => file.audio = Bytes(0, 0)

====
